---------------------------- MODULE Spec2Model ----------------------------
(***************************************************************************)
(* GraphNext: graph state and path engine.                                 *)
(*                                                                         *)
(* Sources modelled:                                                       *)
(*   FrontEnd/src/app/routing/page.tsx     (PathfindingPage)               *)
(*   FrontEnd/src/store/useGraphStore.ts   (graph store, computeLayout)    *)
(*   FrontEnd/src/hooks/useAppStore.ts     (application store)             *)
(*   unnamed/part_004                      (RootLayout / LayoutContent)    *)
(*   FrontEnd/src/components/Navbar.tsx    (loadGraph)                     *)
(*                                                                         *)
(* Conventions.  Array indices are 0-based as in the source; a sequence s  *)
(* of the model holds array element i at s[i+1].  An edge id               *)
(* `${source}->${target}` is the tuple <<"->", source, target>>; the       *)
(* anchor ids `start-to-${t}` and `${s}-to-end` are <<"start-to", t>> and  *)
(* <<s, "-to-end">>.  JavaScript numbers produced by a division are exact  *)
(* rationals <<numerator, denominator>> (floating-point rounding is not    *)
(* modelled).                                                              *)
(***************************************************************************)
EXTENDS Integers, Sequences, FiniteSets, TLC

(***************************************************************************)
(* Bounds of the model.                                                    *)
(***************************************************************************)
\* Longest Variant_Path of a single-variant input.
MaxLen == 4
\* Largest sum of the Variant_Path lengths of a multi-variant input.
MaxTotalLen == 4

\* Activity ids, case counts and cumulative timestamps the inputs are drawn from.
Activities == {"A", "B", "C"}
AggActivities == {"A", "B"}
Freqs == {1, 3}
TimeVals == {0, 10}

START_NODE == "START_NODE"
END_NODE == "END_NODE"

\* null / undefined for ids and indices.
NULL == "null"

\* An optional value: None is `undefined`, Some(v) a present value.
None == <<>>
Some(v) == <<v>>
IsSome(o) == o # <<>>
Get(o) == o[1]

(***************************************************************************)
(* Generic helpers.                                                        *)
(***************************************************************************)
\* Mutant of Max0: the difference is not floored at zero.
Max0_NoClamp(x) == x

\* Math.max(0, x)
Max0(x) == IF x > 0 THEN x ELSE 0

Range(s) == {s[i] : i \in DOMAIN s}

\* All sequences over S with length in lo..hi.
SeqsOf(S, lo, hi) == UNION {[1..n -> S] : n \in lo..hi}

\* `${source}->${target}`
EdgeId(source, target) == <<"->", source, target>>

\* Array.prototype.slice(from, to) with 0-based from (inclusive), to (exclusive).
Slice(s, from, to) == [k \in 1..(to - from) |-> s[from + k]]

\* Exact rationals for the results of JavaScript divisions.
Rat(n, d) == <<n, d>>
RatEq(a, b) == a[1] * b[2] = b[1] * a[2]
RatLess(a, b) == a[1] * b[2] < b[1] * a[2]
RatNonNeg(a) == a[1] * a[2] >= 0

\* Array.prototype.indexOf: first index holding x, -1 when absent.
RECURSIVE IndexOfFrom(_, _, _)
IndexOfFrom(s, x, i) ==
    IF i >= Len(s) THEN -1
    ELSE IF s[i + 1] = x THEN i
    ELSE IndexOfFrom(s, x, i + 1)

IndexOf(s, x) == IndexOfFrom(s, x, 0)

\* Array.prototype.lastIndexOf: last index holding x, -1 when absent.
RECURSIVE LastIndexOfFrom(_, _, _)
LastIndexOfFrom(s, x, i) ==
    IF i < 0 THEN -1
    ELSE IF s[i + 1] = x THEN i
    ELSE LastIndexOfFrom(s, x, i - 1)

LastIndexOf(s, x) == LastIndexOfFrom(s, x, Len(s) - 1)

\* Record<string, number>: a function on the set of keys written so far.
EmptyMap == [k \in {} |-> 0]
MapSet(m, k, v) == [x \in (DOMAIN m) \cup {k} |-> IF x = k THEN v ELSE m[x]]
\* m[k] || 0
MapGetOr0(m, k) == IF k \in DOMAIN m THEN m[k] ELSE 0

\* arr[i] ?? 0
At0(arr, i) == IF i >= 0 /\ i < Len(arr) THEN arr[i + 1] ELSE 0

(***************************************************************************)
(* PathExtractor: first loop of findPathsBetweenNodes (page.tsx 91-170).   *)
(***************************************************************************)
\* startIndex: indexOf(startId), forced to 0 for the START sentinel.
StartIndexOf(startId, variantPath) ==
    IF startId = START_NODE THEN 0 ELSE IndexOf(variantPath, startId)

\* Mutant of EndIndexOf: indexOf (first occurrence) instead of lastIndexOf.
EndIndexOf_FirstOccurrence(endId, variantPath) ==
    IF endId = END_NODE THEN Len(variantPath) - 1 ELSE IndexOf(variantPath, endId)

\* endIndex: lastIndexOf(endId), forced to length-1 for the END sentinel.
EndIndexOf(endId, variantPath) ==
    IF endId = END_NODE THEN Len(variantPath) - 1 ELSE LastIndexOf(variantPath, endId)

\* The loop of lines 140-159; acc is (totalDuration, edgeDurations, edgeTotalDurations).
RECURSIVE EdgeDurationLoop(_, _, _, _)
EdgeDurationLoop(variant, i, endTimingIndex, acc) ==
    IF ~(i < endTimingIndex /\ (i + 1) < Len(variant.Avg_Timings)) THEN acc
    ELSE
        LET currentTime == At0(variant.Avg_Timings, i)
            nextTime == At0(variant.Avg_Timings, i + 1)
            avgDuration == Max0(nextTime - currentTime)
            currentTotal == At0(variant.Total_Timings, i)
            nextTotal == At0(variant.Total_Timings, i + 1)
            totalTimingDuration == Max0(nextTotal - currentTotal)
            edgeId == EdgeId(variant.Variant_Path[i + 1], variant.Variant_Path[i + 2])
        IN  EdgeDurationLoop(variant, i + 1, endTimingIndex,
                [totalDuration |-> acc.totalDuration + avgDuration,
                 edgeDurations |-> MapSet(acc.edgeDurations, edgeId, avgDuration),
                 edgeTotalDurations |->
                     MapSet(acc.edgeTotalDurations, edgeId, totalTimingDuration)])

\* Mutant of SkipsVariant: `endIndex < startIndex` lets a one-node window through.
SkipsVariant_AllowsEqual(startIndex, endIndex) ==
    \/ startIndex = -1
    \/ endIndex = -1 \/ endIndex < startIndex

\* The two `continue` tests of lines 96 and 103.
SkipsVariant(startIndex, endIndex) ==
    \/ startIndex = -1
    \/ endIndex = -1 \/ endIndex <= startIndex

\* One iteration of the loop over the variants: <<>> on `continue`, else <<path>>.
ExtractVariant(startId, endId, variant) ==
    LET variantPath == variant.Variant_Path
        startIndex == StartIndexOf(startId, variantPath)
        endIndex == EndIndexOf(endId, variantPath)
    IN  IF SkipsVariant(startIndex, endIndex) THEN <<>>
        ELSE
            LET subPath == Slice(variantPath, startIndex, endIndex + 1)
                isAbsolute == startIndex = 0 /\ endIndex = Len(variantPath) - 1
                hasTimings == Len(variant.Avg_Timings) > 0
                loop == EdgeDurationLoop(variant, startIndex, endIndex,
                            [totalDuration |-> 0, edgeDurations |-> EmptyMap,
                             edgeTotalDurations |-> EmptyMap])
            IN  << [nodes |-> subPath,
                    edges |-> <<>>,
                    frequency |-> variant.Frequency,
                    totalDuration |-> IF hasTimings THEN loop.totalDuration ELSE 0,
                    averageDuration |->
                        IF hasTimings /\ Len(subPath) > 1
                        THEN Rat(loop.totalDuration, Len(subPath) - 1) ELSE Rat(0, 1),
                    _pathType |-> IF isAbsolute THEN "absolute" ELSE "relative",
                    _frequency |-> variant.Frequency,
                    _fullPathNodes |-> variantPath,
                    _startIndex |-> startIndex,
                    _endIndex |-> endIndex,
                    _variantDuration |->
                        IF hasTimings THEN Some(loop.totalDuration) ELSE None,
                    _variantTimings |->
                        IF hasTimings
                        THEN Some(Slice(variant.Avg_Timings, startIndex, endIndex + 1))
                        ELSE None,
                    _specificEdgeDurations |->
                        IF hasTimings THEN Some(loop.edgeDurations) ELSE None,
                    _specificTotalDurations |->
                        IF hasTimings THEN Some(loop.edgeTotalDurations) ELSE None] >>

\* The array `paths` after the loop over variantList.
RECURSIVE ExtractPaths(_, _, _)
ExtractPaths(startId, endId, variantList) ==
    IF variantList = <<>> THEN <<>>
    ELSE ExtractVariant(startId, endId, Head(variantList))
             \o ExtractPaths(startId, endId, Tail(variantList))

(***************************************************************************)
(* The store's copy of the extractor: handleNodeClick in pathfinding mode  *)
(* (useGraphStore.ts 893-921).                                             *)
(***************************************************************************)
\* The forEach body of lines 895-920: <<>> when the test of line 898 fails.
StoreValidPath(startId, endId, variant) ==
    LET startIdx == IF startId = START_NODE THEN 0
                    ELSE IndexOf(variant.Variant_Path, startId)
        endIdx == IF endId = END_NODE THEN Len(variant.Variant_Path) - 1
                  ELSE LastIndexOf(variant.Variant_Path, endId)
    IN  IF ~(startIdx # -1 /\ endIdx # -1 /\ startIdx < endIdx) THEN <<>>
        ELSE
            LET pathNodes == Slice(variant.Variant_Path, startIdx, endIdx + 1)
            IN  << [nodes |-> pathNodes,
                    edges |-> [i \in 1..(Len(pathNodes) - 1) |->
                                  EdgeId(pathNodes[i], pathNodes[i + 1])],
                    _variantDuration |->
                        At0(variant.Avg_Timings, endIdx) - At0(variant.Avg_Timings, startIdx),
                    _frequency |-> variant.Frequency,
                    _fullPathNodes |-> variant.Variant_Path,
                    _startIndex |-> startIdx,
                    _endIndex |-> endIdx,
                    _pathType |->
                        IF startIdx = 0 /\ endIdx = Len(variant.Variant_Path) - 1
                        THEN "absolute" ELSE "relative",
                    _variantTimings |-> Some(variant.Avg_Timings)] >>

\* validPaths after variants.forEach.
RECURSIVE StoreValidPaths(_, _, _)
StoreValidPaths(startId, endId, variantList) ==
    IF variantList = <<>> THEN <<>>
    ELSE StoreValidPath(startId, endId, Head(variantList))
             \o StoreValidPaths(startId, endId, Tail(variantList))

(***************************************************************************)
(* PathAggregator: grouping and merging of findPathsBetweenNodes           *)
(* (page.tsx 172-257).                                                     *)
(***************************************************************************)
\* path.frequency || 1
FrequencyOr1(path) == IF path.frequency = 0 THEN 1 ELSE path.frequency

\* Mutant of AccumulateWeighted: the duration is added without its frequency weight.
AccumulateWeighted_Unweighted(existing, durations, frequency) ==
    IF ~IsSome(durations) THEN existing
    ELSE [e \in (DOMAIN existing) \cup (DOMAIN Get(durations)) |->
             MapGetOr0(existing, e)
                 + (IF e \in DOMAIN Get(durations) THEN Get(durations)[e] ELSE 0)]

\* Lines 196-200 / 209-214: existing[edgeId] = (existing[edgeId] || 0) + duration * frequency.
AccumulateWeighted(existing, durations, frequency) ==
    IF ~IsSome(durations) THEN existing
    ELSE [e \in (DOMAIN existing) \cup (DOMAIN Get(durations)) |->
             MapGetOr0(existing, e)
                 + (IF e \in DOMAIN Get(durations)
                    THEN Get(durations)[e] * frequency ELSE 0)]

\* Mutant of AccumulateTotals: `=` instead of `+=`, the last total overwrites the sum.
AccumulateTotals_Overwrite(existing, totals) ==
    IF ~IsSome(totals) THEN existing
    ELSE [e \in (DOMAIN existing) \cup (DOMAIN Get(totals)) |->
             IF e \in DOMAIN Get(totals) THEN Get(totals)[e] ELSE existing[e]]

\* Lines 202-206 / 215-220: existing[edgeId] = (existing[edgeId] || 0) + totalDur.
AccumulateTotals(existing, totals) ==
    IF ~IsSome(totals) THEN existing
    ELSE [e \in (DOMAIN existing) \cup (DOMAIN Get(totals)) |->
             MapGetOr0(existing, e)
                 + (IF e \in DOMAIN Get(totals) THEN Get(totals)[e] ELSE 0)]

\* Index (1-based) of the pathMap entry with this key, 0 when there is none.
RECURSIVE PathMapFind(_, _, _)
PathMapFind(pathMap, key, i) ==
    IF i > Len(pathMap) THEN 0
    ELSE IF pathMap[i].key = key THEN i
    ELSE PathMapFind(pathMap, key, i + 1)

\* Mutant of PathMapAdd: a path merged into an existing group does not add its
\* frequency to the group's.
PathMapAdd_DropsFrequency(pathMap, path) ==
    LET key == path.nodes
        frequency == FrequencyOr1(path)
        at == PathMapFind(pathMap, key, 1)
    IN  IF at # 0
        THEN [pathMap EXCEPT ![at] =
                [key |-> key,
                 path |-> @.path,
                 totalFrequency |-> @.totalFrequency,
                 weightedTotalDuration |->
                     @.weightedTotalDuration + path.totalDuration * frequency,
                 weightedEdgeDurations |->
                     AccumulateWeighted(@.weightedEdgeDurations,
                                        path._specificEdgeDurations, frequency),
                 summedEdgeTotalDurations |->
                     AccumulateTotals(@.summedEdgeTotalDurations,
                                      path._specificTotalDurations)]]
        ELSE Append(pathMap,
                [key |-> key,
                 path |-> path,
                 totalFrequency |-> frequency,
                 weightedTotalDuration |-> path.totalDuration * frequency,
                 weightedEdgeDurations |->
                     AccumulateWeighted(EmptyMap, path._specificEdgeDurations, frequency),
                 summedEdgeTotalDurations |->
                     AccumulateTotals(EmptyMap, path._specificTotalDurations)])

\* Body of the loop of lines 182-230 for one extracted path.
PathMapAdd(pathMap, path) ==
    LET key == path.nodes
        frequency == FrequencyOr1(path)
        pathTotalDuration == path.totalDuration
        at == PathMapFind(pathMap, key, 1)
    IN  IF at # 0
        THEN [pathMap EXCEPT ![at] =
                [key |-> key,
                 path |-> @.path,
                 totalFrequency |-> @.totalFrequency + frequency,
                 weightedTotalDuration |->
                     @.weightedTotalDuration + pathTotalDuration * frequency,
                 weightedEdgeDurations |->
                     AccumulateWeighted(@.weightedEdgeDurations,
                                        path._specificEdgeDurations, frequency),
                 summedEdgeTotalDurations |->
                     AccumulateTotals(@.summedEdgeTotalDurations,
                                      path._specificTotalDurations)]]
        ELSE Append(pathMap,
                [key |-> key,
                 path |-> path,
                 totalFrequency |-> frequency,
                 weightedTotalDuration |-> pathTotalDuration * frequency,
                 weightedEdgeDurations |->
                     AccumulateWeighted(EmptyMap, path._specificEdgeDurations, frequency),
                 summedEdgeTotalDurations |->
                     AccumulateTotals(EmptyMap, path._specificTotalDurations)])

\* pathMap after the loop over `paths` (insertion order of a Map).
RECURSIVE BuildPathMap(_, _)
BuildPathMap(pathMap, paths) ==
    IF paths = <<>> THEN pathMap
    ELSE BuildPathMap(PathMapAdd(pathMap, Head(paths)), Tail(paths))

\* The callback of lines 233-254 for one pathMap entry.
MergedPath(entry) ==
    LET path == entry.path
        totalFrequency == entry.totalFrequency
        avgEdgeDurations ==
            [e \in DOMAIN entry.weightedEdgeDurations |->
                Rat(entry.weightedEdgeDurations[e], totalFrequency)]
        totalDuration == Rat(entry.weightedTotalDuration, totalFrequency)
    IN  [path EXCEPT
            !.frequency = totalFrequency,
            !._frequency = totalFrequency,
            !._specificEdgeDurations = Some(avgEdgeDurations),
            !._specificTotalDurations = Some(entry.summedEdgeTotalDurations),
            !.totalDuration = totalDuration,
            !.averageDuration =
                IF Len(path.nodes) > 1
                THEN Rat(totalDuration[1], totalDuration[2] * (Len(path.nodes) - 1))
                ELSE Rat(0, 1),
            !._variantDuration = Some(totalDuration)]

MergePaths(paths) ==
    LET pathMap == BuildPathMap(<<>>, paths)
    IN  [i \in 1..Len(pathMap) |-> MergedPath(pathMap[i])]

\* Array.prototype.sort with (a, b) => b.frequency - a.frequency (stable).
RECURSIVE InsertByFrequencyDesc(_, _)
InsertByFrequencyDesc(x, sorted) ==
    IF sorted = <<>> THEN <<x>>
    ELSE IF Head(sorted).frequency <= x.frequency THEN <<x>> \o sorted
    ELSE <<Head(sorted)>> \o InsertByFrequencyDesc(x, Tail(sorted))

RECURSIVE SortByFrequencyDesc(_)
SortByFrequencyDesc(paths) ==
    IF paths = <<>> THEN <<>>
    ELSE InsertByFrequencyDesc(Head(paths), SortByFrequencyDesc(Tail(paths)))

\* findPathsBetweenNodes(startId, endId, variantList)
FindPathsBetweenNodes(startId, endId, variantList) ==
    IF Len(variantList) = 0 THEN <<>>
    ELSE SortByFrequencyDesc(MergePaths(ExtractPaths(startId, endId, variantList)))

(***************************************************************************)
(* GraphIngestor: processInitialData (useGraphStore.ts 309-435).           *)
(* nodesMap and edgesMap are JavaScript Maps: sequences of entries in      *)
(* insertion order; set() on a present key replaces the value in place.    *)
(* Positions, widths and the draggable flag are the same for every element *)
(* and are left out of the records.                                        *)
(***************************************************************************)
StartAnchorId(targetNodeId) == <<"start-to", targetNodeId>>
EndAnchorId(sourceNodeId) == <<sourceNodeId, "-to-end">>

Includes(arr, x) == \E i \in DOMAIN arr : arr[i] = x

RECURSIVE FindEntry(_, _, _)
FindEntry(entries, id, i) ==
    IF i > Len(entries) THEN 0
    ELSE IF entries[i].id = id THEN i
    ELSE FindEntry(entries, id, i + 1)

MapHas(entries, id) == FindEntry(entries, id, 1) # 0

\* Map.prototype.set
MapPut(entries, value) ==
    LET at == FindEntry(entries, value.id, 1)
    IN  IF at = 0 THEN Append(entries, value) ELSE [entries EXCEPT ![at] = value]

\* Lines 327-339 and 344-356.
ActivityNode(id, startActivities, endActivities) ==
    [id |-> id,
     type |-> "activity",
     data |-> [label |-> id,
               type |-> "activity",
               isStart |-> Includes(startActivities, id),
               isEnd |-> Includes(endActivities, id)]]

\* Lines 362-375.
RecordEdge(item) ==
    [id |-> EdgeId(item.Source_Activity, item.Target_Activity),
     source |-> item.Source_Activity,
     target |-> item.Target_Activity,
     type |-> "default",
     label |-> item.Edge_Label,
     data |-> [Weight_Value |-> item.Weight_Value,
               Case_Count |-> item.Case_Count,
               Mean_Duration_Seconds |-> item.Mean_Duration_Seconds,
               Tooltip_Total_Time |-> item.Tooltip_Total_Time,
               Tooltip_Mean_Time |-> item.Tooltip_Mean_Time]]

\* Mutant of AddRecordEdge: the edge is set unconditionally, the last record wins.
AddRecordEdge_LastWins(edgesMap, item) == MapPut(edgesMap, RecordEdge(item))

\* Lines 360-376: the edge is created only if its id is not in the map yet.
AddRecordEdge(edgesMap, item) ==
    IF ~MapHas(edgesMap, EdgeId(item.Source_Activity, item.Target_Activity))
    THEN MapPut(edgesMap, RecordEdge(item))
    ELSE edgesMap

\* Lines 326-357: source node, then target node, each only if absent.
AddRecordNodes(nodesMap, item, startActivities, endActivities) ==
    LET withSource ==
            IF ~MapHas(nodesMap, item.Source_Activity)
            THEN MapPut(nodesMap,
                        ActivityNode(item.Source_Activity, startActivities, endActivities))
            ELSE nodesMap
    IN  IF ~MapHas(withSource, item.Target_Activity)
        THEN MapPut(withSource,
                    ActivityNode(item.Target_Activity, startActivities, endActivities))
        ELSE withSource

\* The forEach of lines 321-377 from record i on.
RECURSIVE IngestRecords(_, _, _, _, _)
IngestRecords(graphRecords, i, startActivities, endActivities, maps) ==
    IF i > Len(graphRecords) THEN maps
    ELSE IngestRecords(graphRecords, i + 1, startActivities, endActivities,
            [nodesMap |-> AddRecordNodes(maps.nodesMap, graphRecords[i],
                                         startActivities, endActivities),
             edgesMap |-> AddRecordEdge(maps.edgesMap, graphRecords[i])])

\* Lines 316-319.
ValidNodeIds(graphRecords) ==
    {graphRecords[i].Source_Activity : i \in DOMAIN graphRecords}
        \cup {graphRecords[i].Target_Activity : i \in DOMAIN graphRecords}

\* Lines 380-399.
StartNode == [id |-> START_NODE, type |-> "start", data |-> [label |-> "start", type |-> "start"]]
EndNode == [id |-> END_NODE, type |-> "end", data |-> [label |-> "end", type |-> "end"]]

AnchorStroke == "#a0aec0"

\* Lines 405-413.
StartAnchorEdge(targetNodeId) ==
    [id |-> StartAnchorId(targetNodeId),
     source |-> START_NODE,
     target |-> targetNodeId,
     type |-> "default",
     data |-> [originalStroke |-> AnchorStroke],
     style |-> [stroke |-> AnchorStroke, strokeDasharray |-> "5 5"]]

\* Lines 420-428.
EndAnchorEdge(sourceNodeId) ==
    [id |-> EndAnchorId(sourceNodeId),
     source |-> sourceNodeId,
     target |-> END_NODE,
     type |-> "default",
     data |-> [originalStroke |-> AnchorStroke],
     style |-> [stroke |-> AnchorStroke, strokeDasharray |-> "5 5"]]

\* Lines 402-414 and 417-429: one anchor edge per listed activity that occurs in the data.
RECURSIVE AddAnchorEdges(_, _, _, _, _)
AddAnchorEdges(edgesMap, activities, i, valid, isStart) ==
    IF i > Len(activities) THEN edgesMap
    ELSE AddAnchorEdges(
            IF activities[i] \in valid
            THEN MapPut(edgesMap, IF isStart THEN StartAnchorEdge(activities[i])
                                             ELSE EndAnchorEdge(activities[i]))
            ELSE edgesMap,
            activities, i + 1, valid, isStart)

\* processInitialData: the allNodes and allEdges it stores (lines 431-434).
ProcessInitialData(graphRecords, startActivities, endActivities) ==
    LET maps == IngestRecords(graphRecords, 1, startActivities, endActivities,
                              [nodesMap |-> <<>>, edgesMap |-> <<>>])
        valid == ValidNodeIds(graphRecords)
        withStart == AddAnchorEdges(maps.edgesMap, startActivities, 1, valid, TRUE)
    IN  [allNodes |-> MapPut(MapPut(maps.nodesMap, StartNode), EndNode),
         allEdges |-> AddAnchorEdges(withStart, endActivities, 1, valid, FALSE)]

(***************************************************************************)
(* formatDuration (utils/formatDuration): a duration in seconds, given as  *)
(* a rational, becomes <<digits, decimals, unit>>, where digits is the     *)
(* rounded value scaled by 10^decimals, as toFixed(decimals) prints it.    *)
(***************************************************************************)
RoundRat(n, d) == (2 * n + d) \div (2 * d)

FormatDuration(seconds) ==
    LET n == seconds[1]
        d == seconds[2]
    IN  IF n < 60 * d THEN <<RoundRat(n, d), 0, "seconds">>
        ELSE IF n < 3600 * d THEN <<RoundRat(10 * n, 60 * d), 1, "minutes">>
        ELSE IF n < 86400 * d THEN <<RoundRat(10 * n, 3600 * d), 1, "hours">>
        ELSE <<RoundRat(100 * n, 86400 * d), 2, "days">>

(***************************************************************************)
(* computeLayout (useGraphStore.ts 437-707).  The part before              *)
(* `await elk.layout` builds a request; the part after it turns the        *)
(* request into the rendered lists.  ELK only assigns positions, which the *)
(* records leave out.                                                      *)
(***************************************************************************)
IdsOf(elems) == {elems[i].id : i \in DOMAIN elems}

\* The layout config every caller other than a path selection passes.
PlainConfig(colorPaletteKey, filteredNodeIds) ==
    [colorPaletteKey |-> colorPaletteKey,
     filteredNodeIds |-> filteredNodeIds,
     filteredEdgeIds |-> None,
     activePathInfo |-> None,
     searchCasePathInfo |-> None]

\* Lines 453-459.
ExtendedNodeIds(config) ==
    config.filteredNodeIds
        \cup (IF ~IsSome(config.activePathInfo) THEN {START_NODE, END_NODE} ELSE {})

\* Lines 447-474 without the size test of line 450: an empty set filters too.
FilterGraph_EmptyFilters(nodes, edges, config) ==
    LET byNodes == Len(nodes) > 0
        extendedNodeIds == ExtendedNodeIds(config)
        nodesToLayout ==
            IF byNodes THEN SelectSeq(nodes, LAMBDA n : n.id \in extendedNodeIds)
            ELSE nodes
        byNodeEdges ==
            IF byNodes
            THEN SelectSeq(edges, LAMBDA e : e.source \in extendedNodeIds
                                              /\ e.target \in extendedNodeIds)
            ELSE edges
        byEdges == /\ Len(byNodeEdges) > 0
                   /\ IsSome(config.filteredEdgeIds)
                   /\ Get(config.filteredEdgeIds) # {}
    IN  [nodes |-> nodesToLayout,
         edges |-> IF byEdges
                   THEN SelectSeq(byNodeEdges, LAMBDA e : e.id \in Get(config.filteredEdgeIds))
                   ELSE byNodeEdges]

\* Lines 447-474.
FilterGraph(nodes, edges, config) ==
    LET byNodes == Len(nodes) > 0 /\ config.filteredNodeIds # {}
        extendedNodeIds == ExtendedNodeIds(config)
        nodesToLayout ==
            IF byNodes THEN SelectSeq(nodes, LAMBDA n : n.id \in extendedNodeIds)
            ELSE nodes
        byNodeEdges ==
            IF byNodes
            THEN SelectSeq(edges, LAMBDA e : e.source \in extendedNodeIds
                                              /\ e.target \in extendedNodeIds)
            ELSE edges
        byEdges == /\ Len(byNodeEdges) > 0
                   /\ IsSome(config.filteredEdgeIds)
                   /\ Get(config.filteredEdgeIds) # {}
    IN  [nodes |-> nodesToLayout,
         edges |-> IF byEdges
                   THEN SelectSeq(byNodeEdges, LAMBDA e : e.id \in Get(config.filteredEdgeIds))
                   ELSE byNodeEdges]

GhostAccent == "#f59e0b"

\* Lines 481-493.
GhostNode(id) ==
    [id |-> id,
     type |-> "activity",
     data |-> [label |-> id, isGhost |-> TRUE],
     style |-> [border |-> "2px dashed #f59e0b"]]

\* Lines 503-518; split("->") of an edge id gives its source and target.
GhostEdge(edgeId) ==
    [id |-> edgeId,
     source |-> edgeId[2],
     target |-> edgeId[3],
     type |-> "default",
     animated |-> TRUE,
     label |-> <<>>,
     style |-> [stroke |-> GhostAccent, strokeDasharray |-> "5, 5"],
     data |-> [isGhost |-> TRUE]]

\* Lines 529-536.
SearchCaseNode(id) ==
    [id |-> id, type |-> "activity", data |-> [label |-> id, isGhost |-> FALSE]]

\* Lines 546-557.
SearchCaseEdge(edgeId) ==
    [id |-> edgeId,
     source |-> edgeId[2],
     target |-> edgeId[3],
     type |-> "default",
     animated |-> FALSE,
     label |-> <<>>,
     data |-> [isGhost |-> FALSE]]

\* ids.filter(id => !existing.has(id)).map(make), appended to elems; `made` is
\* the element make builds for each id.
RECURSIVE AppendMissing(_, _, _, _, _)
AppendMissing(elems, existing, ids, i, made) ==
    IF i > Len(ids) THEN elems
    ELSE AppendMissing(IF ids[i] \in existing THEN elems ELSE Append(elems, made[ids[i]]),
                       existing, ids, i + 1, made)

\* Lines 476-522 without the edge half (498-521): ghost nodes only.
InjectGhosts_NodesOnly(graph, activePathInfo) ==
    IF ~IsSome(activePathInfo) THEN graph
    ELSE [nodes |-> AppendMissing(graph.nodes, IdsOf(graph.nodes),
                                  Get(activePathInfo).nodes, 1,
                                  [id \in Range(Get(activePathInfo).nodes) |-> GhostNode(id)]),
          edges |-> graph.edges]

\* Lines 476-522.
InjectGhosts(graph, activePathInfo) ==
    IF ~IsSome(activePathInfo) THEN graph
    ELSE [nodes |-> AppendMissing(graph.nodes, IdsOf(graph.nodes),
                                  Get(activePathInfo).nodes, 1,
                                  [id \in Range(Get(activePathInfo).nodes) |-> GhostNode(id)]),
          edges |-> AppendMissing(graph.edges, IdsOf(graph.edges),
                                  Get(activePathInfo).edges, 1,
                                  [id \in Range(Get(activePathInfo).edges) |-> GhostEdge(id)])]

\* Lines 524-561.
InjectSearchCase(graph, searchCasePathInfo) ==
    IF ~IsSome(searchCasePathInfo) THEN graph
    ELSE [nodes |-> AppendMissing(graph.nodes, IdsOf(graph.nodes),
                                  Get(searchCasePathInfo).nodes, 1,
                                  [id \in Range(Get(searchCasePathInfo).nodes) |-> SearchCaseNode(id)]),
          edges |-> AppendMissing(graph.edges, IdsOf(graph.edges),
                                  Get(searchCasePathInfo).edges, 1,
                                  [id \in Range(Get(searchCasePathInfo).edges) |-> SearchCaseEdge(id)])]

\* Lines 438-561: what one call hands to ELK, with the config values the code
\* uses again after the await and the config itself, which the call's closure
\* keeps until elk.layout settles.
LayoutRequest(nodes, edges, config) ==
    LET graph == InjectSearchCase(
                     InjectGhosts(FilterGraph(nodes, edges, config), config.activePathInfo),
                     config.searchCasePathInfo)
    IN  [nodesToLayout |-> graph.nodes,
         edgesToLayout |-> graph.edges,
         colorPaletteKey |-> config.colorPaletteKey,
         activePathInfo |-> config.activePathInfo,
         config |-> config]

IsGhost(edge) == "isGhost" \in DOMAIN edge.data /\ edge.data.isGhost

\* (edge.data?.Weight_Value as number) || 0
WeightOf(edge) == IF "Weight_Value" \in DOMAIN edge.data THEN edge.data.Weight_Value ELSE 0

SetMin(S) == CHOOSE x \in S : \A y \in S : x <= y
SetMax(S) == CHOOSE x \in S : \A y \in S : x >= y

\* A weight range taken over every edge, the ghost ones included.
WeightRange_AllEdges(edgesToLayout) ==
    LET weights == {WeightOf(edgesToLayout[i]) : i \in DOMAIN edgesToLayout}
        minWeight == IF weights = {} THEN 0 ELSE SetMin(weights)
        maxWeight == IF weights = {} THEN 1 ELSE SetMax(weights)
    IN  [minWeight |-> minWeight,
         maxWeight |-> IF minWeight = maxWeight THEN minWeight + 1 ELSE maxWeight]

\* Lines 620-631.
WeightRange(edgesToLayout) ==
    LET weights == {WeightOf(edgesToLayout[i]) :
                        i \in {j \in DOMAIN edgesToLayout : ~IsGhost(edgesToLayout[j])}}
        minWeight == IF weights = {} THEN 0 ELSE SetMin(weights)
        maxWeight == IF weights = {} THEN 1 ELSE SetMax(weights)
    IN  [minWeight |-> minWeight,
         maxWeight |-> IF minWeight = maxWeight THEN minWeight + 1 ELSE maxWeight]

PaletteKeys == {"default", "palette1", "palette2", "palette3", "palette4"}

\* Line 633 and constants/colorPalettes.ts: a linear scale over the palette's
\* two-colour range; the colour is the palette with the position on the scale.
EdgeColor(colorPaletteKey, weight, range) ==
    [palette |-> IF colorPaletteKey \in PaletteKeys THEN colorPaletteKey ELSE "default",
     at |-> Rat(weight - range.minWeight, range.maxWeight - range.minWeight)]

\* activePathInfo?.edgeDurations && activePathInfo.edgeDurations[edge.id] !== undefined
HasPathDuration(activePathInfo, edge) ==
    /\ IsSome(activePathInfo)
    /\ "edgeDurations" \in DOMAIN Get(activePathInfo)
    /\ edge.id \in DOMAIN Get(activePathInfo).edgeDurations

\* Lines 639-653 and 667-680: the fields written on an edge of the active path.
PathOverride(activePathInfo, edge) ==
    LET info == Get(activePathInfo)
        avgDuration == info.edgeDurations[edge.id]
        totalDuration == IF edge.id \in DOMAIN info.edgeTotalDurations
                         THEN info.edgeTotalDurations[edge.id] ELSE avgDuration
        pathFrequency == IF info.frequency = 0 THEN 1 ELSE info.frequency
    IN  [pathDuration |-> avgDuration,
         pathFrequency |-> pathFrequency,
         Tooltip_Mean_Time |-> FormatDuration(avgDuration),
         Tooltip_Total_Time |-> FormatDuration(totalDuration),
         Case_Count |-> pathFrequency]

\* { ...a, ...b }
Spread(a, b) ==
    [k \in (DOMAIN a) \cup (DOMAIN b) |-> IF k \in DOMAIN b THEN b[k] ELSE a[k]]

\* Lines 635-693 for one edge.
ColoredEdge(edge, request, range) ==
    IF IsGhost(edge)
    THEN IF HasPathDuration(request.activePathInfo, edge)
         THEN [edge EXCEPT
                 !.label = FormatDuration(Get(request.activePathInfo).edgeDurations[edge.id]),
                 !.data = Spread(edge.data, PathOverride(request.activePathInfo, edge))]
         ELSE edge
    ELSE LET color == EdgeColor(request.colorPaletteKey, WeightOf(edge), range)
             colored == Spread(edge.data, [originalStroke |-> color])
             style == Spread(IF "style" \in DOMAIN edge THEN edge.style ELSE <<>>,
                             [stroke |-> color])
         IN  IF HasPathDuration(request.activePathInfo, edge)
             THEN Spread(edge,
                    [label |-> FormatDuration(
                                   Get(request.activePathInfo).edgeDurations[edge.id]),
                     style |-> style,
                     data |-> Spread(colored, PathOverride(request.activePathInfo, edge))])
             ELSE Spread(edge, [style |-> style, data |-> colored])

\* Lines 612-699: the lists one resolved request stores.
LayoutResult(request) ==
    LET range == WeightRange(request.edgesToLayout)
    IN  [layoutedNodes |-> request.nodesToLayout,
         layoutedEdges |-> [i \in DOMAIN request.edgesToLayout |->
                               ColoredEdge(request.edgesToLayout[i], request, range)]]

\* A computeLayout that keeps the ghost nodes already on screen next to the
\* ones it injects.
ComputeLayout_KeepsGhosts(layout, nodes, edges, config) ==
    LET made == LayoutRequest(nodes, edges, config)
        request == [made EXCEPT !.nodesToLayout =
                       @ \o SelectSeq(layout.layoutedNodes,
                                      LAMBDA n : "isGhost" \in DOMAIN n.data
                                                     /\ n.data.isGhost)]
    IN  IF Len(request.nodesToLayout) = 0
        THEN [layout EXCEPT !.layoutedNodes = <<>>,
                            !.layoutedEdges = <<>>,
                            !.isLayoutLoading = FALSE]
        ELSE [layout EXCEPT !.isLayoutLoading = TRUE,
                            !.pending = Append(@, request)]

\* The store fields computeLayout writes, as one record: `layout`.
\* Lines 563-569: an empty graph clears the rendered lists at once; otherwise the
\* loading flag is raised and the request is handed to ELK.
ComputeLayout(layout, nodes, edges, config) ==
    LET request == LayoutRequest(nodes, edges, config)
    IN  IF Len(request.nodesToLayout) = 0
        THEN [layout EXCEPT !.layoutedNodes = <<>>,
                            !.layoutedEdges = <<>>,
                            !.isLayoutLoading = FALSE]
        ELSE [layout EXCEPT !.isLayoutLoading = TRUE,
                            !.pending = Append(@, request)]

(***************************************************************************)
(* EdgeOverrideResolver: calculateEdgeOverride (useGraphStore.ts 154-233). *)
(* A path holds an optional field as None or Some(value), or lacks it.     *)
(***************************************************************************)
OptField(path, name) == IF name \in DOMAIN path THEN path[name] ELSE None

\* Lines 160-165: the indices of activePath.edges that hold the edge's id.
EdgeIndices(path, edge) ==
    IF "edges" \in DOMAIN path
    THEN {idx \in 0..(Len(path.edges) - 1) : path.edges[idx + 1] = edge.id}
    ELSE {}

\* Lines 168-171.
HasSpecificDuration(path, edge) ==
    /\ IsSome(OptField(path, "_specificEdgeDurations"))
    /\ edge.id \in DOMAIN Get(path._specificEdgeDurations)

\* Lines 172-191.
SpecificOverride(path, edge) ==
    LET avgDuration == Get(path._specificEdgeDurations)[edge.id]
        displayLabel == FormatDuration(avgDuration)
        pathFrequency == IF path._frequency # 0 THEN path._frequency
                         ELSE IF "frequency" \in DOMAIN path /\ path.frequency # 0
                         THEN path.frequency ELSE 1
        totals == OptField(path, "_specificTotalDurations")
        totalDuration == IF IsSome(totals) /\ edge.id \in DOMAIN Get(totals)
                         THEN Rat(Get(totals)[edge.id], 1) ELSE avgDuration
    IN  [displayLabel |-> displayLabel,
         tooltipOverride |-> [label |-> pathFrequency,
                              meanTime |-> <<displayLabel, "mean">>,
                              totalTime |-> FormatDuration(totalDuration),
                              rawDuration |-> avgDuration]]

\* Lines 204-212: the indices whose two timestamps exist.
TimedIndices(path, edge) ==
    {idx \in EdgeIndices(path, edge) :
        /\ path._startIndex + idx >= 0
        /\ path._startIndex + idx + 1 < Len(Get(path._variantTimings))}

RECURSIVE SumOver(_, _)
SumOver(S, f) ==
    IF S = {} THEN 0
    ELSE LET x == CHOOSE y \in S : TRUE IN f[x] + SumOver(S \ {x}, f)

\* Lines 194-229.
TimingOverride(path, edge) ==
    LET timings == Get(path._variantTimings)
        timed == TimedIndices(path, edge)
        totalDuration ==
            SumOver(timed, [idx \in timed |->
                               Max0(timings[path._startIndex + idx + 2]
                                        - timings[path._startIndex + idx + 1])])
        count == Cardinality(timed)
        displayLabel == FormatDuration(Rat(totalDuration, 1))
    IN  [displayLabel |-> displayLabel,
         tooltipOverride |->
             [label |-> path._frequency,
              meanTime |-> IF count > 1 THEN <<displayLabel, "sum of", count>>
                           ELSE displayLabel,
              totalTime |-> FormatDuration(Rat(totalDuration * path._frequency, 1))]]

\* Lines 194-199 and 214.
HasTimingOverride(path, edge) ==
    /\ EdgeIndices(path, edge) # {}
    /\ IsSome(OptField(path, "_variantTimings"))
    /\ Len(Get(path._variantTimings)) > 0
    /\ "_startIndex" \in DOMAIN path
    /\ TimedIndices(path, edge) # {}

\* A resolver that looks at the timestamps first.
CalculateEdgeOverride_TimingsFirst(edge, path) ==
    IF ~IsSome(path) THEN None
    ELSE IF HasTimingOverride(Get(path), edge) THEN Some(TimingOverride(Get(path), edge))
    ELSE IF HasSpecificDuration(Get(path), edge)
    THEN Some(SpecificOverride(Get(path), edge))
    ELSE None

\* calculateEdgeOverride(edge, activePath): None for null.
CalculateEdgeOverride(edge, path) ==
    IF ~IsSome(path) THEN None
    ELSE IF HasSpecificDuration(Get(path), edge)
    THEN Some(SpecificOverride(Get(path), edge))
    ELSE IF HasTimingOverride(Get(path), edge) THEN Some(TimingOverride(Get(path), edge))
    ELSE None

(***************************************************************************)
(* Inputs of findPathsBetweenNodes.  A variant carries one cumulative      *)
(* timestamp per visited activity (Seconds_From_Start, 0 at the first      *)
(* activity); Total_Timings is the same quantity summed over the           *)
(* Frequency cases of the variant.                                         *)
(***************************************************************************)
TimingsOf(n) == {t \in [1..n -> TimeVals] : n = 0 \/ t[1] = 0}

Variant(path, frequency, timings) ==
    [Variant_Path |-> path,
     Frequency |-> frequency,
     Avg_Timings |-> timings,
     Total_Timings |-> [i \in DOMAIN timings |-> timings[i] * frequency]]

VariantsOf(paths, n) ==
    {Variant(p, f, t) : p \in paths, f \in Freqs, t \in TimingsOf(n)}

\* The code only compares activity ids for equality, so of the paths that differ
\* by a renaming of the activities one is enough: the one in which the
\* activities make their first appearance in the order A, B, C.
ActivityOrder == <<"A", "B", "C">>

FirstAppearInOrder(p) ==
    \A i \in DOMAIN p : \A k \in 2..Len(ActivityOrder) :
        p[i] = ActivityOrder[k] => \E j \in 1..(i - 1) : p[j] = ActivityOrder[k - 1]

SinglePaths(n) == {p \in [1..n -> Activities] : FirstAppearInOrder(p)}

\* Lists of variants of at least two activities each, whose path lengths add up
\* to at most `budget`.
RECURSIVE VariantLists(_, _)
VariantLists(S, budget) ==
    {<<>>} \cup
    UNION {{<<v>> \o rest : v \in VariantsOf([1..n -> S], n),
                            rest \in VariantLists(S, budget - n)} : n \in 2..budget}

SingleVariantInputs ==
    {<<v>> : v \in UNION {VariantsOf(SinglePaths(n), n) : n \in 0..MaxLen}}
MultiVariantInputs == {l \in VariantLists(AggActivities, MaxTotalLen) : Len(l) # 1}

\* Ids a user can pick as start or end: every node of the list, anchors included.
PickableIds(S) == S \cup {START_NODE, END_NODE}

(***************************************************************************)
(* Inputs of processInitialData: edge records as the backend sends them.   *)
(***************************************************************************)
MaxRecords == 3

Stats(weight, count, mean) ==
    [Weight_Value |-> weight,
     Case_Count |-> count,
     Mean_Duration_Seconds |-> mean,
     Edge_Label |-> <<"cases", count>>,
     Tooltip_Total_Time |-> FormatDuration(Rat(mean * count, 1)),
     Tooltip_Mean_Time |-> FormatDuration(Rat(mean, 1))]

StatProfiles == {Stats(1, 1, 10), Stats(2, 1, 10), Stats(1, 2, 30)}

GraphRecord(source, target, stats) ==
    Spread([Source_Activity |-> source, Target_Activity |-> target], stats)

GraphRecords ==
    {GraphRecord(s, t, p) : s \in AggActivities, t \in AggActivities, p \in StatProfiles}

\* Start and end activity lists; "C" never occurs in GraphRecords.
StartActivityLists == {<<>>, <<"A", "C">>}
EndActivityLists == {<<>>, <<"B", "C">>}

(***************************************************************************)
(* The data the backend answers a filter submission with.                  *)
(***************************************************************************)
Dataset1 ==
    [graphData |-> <<GraphRecord("A", "B", Stats(1, 1, 10)),
                     GraphRecord("B", "C", Stats(2, 1, 10)),
                     GraphRecord("A", "C", Stats(1, 2, 30))>>,
     variants |-> <<Variant(<<"A", "B", "C">>, 3, <<0, 10, 30>>),
                    Variant(<<"A", "C">>, 1, <<0, 10>>)>>,
     startActivities |-> <<"A">>,
     endActivities |-> <<"C">>]

\* Every submission is answered with Dataset1; a second answer is new raw data
\* all the same: every array and object of it is a new one.
Datasets == {Dataset1}

\* What the user operates in a run: the nodes clicked on the pathfinding page,
\* the nodes toggled in the filter list, the palette chosen on the settings page
\* (choosing the current one again still calls computeLayout), the pages visited.
ClickIds == {"A", "C"}
FilterIds == {"A"}
PaletteChoices == {"default"}
Tabs == {"Filter", "Routing", "Settings"}

\* Caps on the layout requests in flight and on the timers not yet fired.
MaxPending == 2
MaxTimers == 1

(***************************************************************************)
(* State.                                                                  *)
(***************************************************************************)
VARIABLES
    graphData,              \* useAppStore.graphData
    variants,               \* useAppStore.variants
    startEndNodes,          \* useAppStore.startEndNodes
    selectedNodeIds,        \* useAppStore.selectedNodeIds: the node filter
    selectedColorPalette,   \* useAppStore.selectedColorPalette
    selectedPathNodes,      \* useAppStore.selectedPathNodes
    selectedPathEdges,      \* useAppStore.selectedPathEdges
    appSelectedPathIndex,   \* useAppStore.selectedPathIndex
    sidebarActiveTab,       \* useAppStore.sidebarActiveTab: the page shown
    allNodes,               \* useGraphStore.allNodes
    allEdges,               \* useGraphStore.allEdges
    layoutedNodes,          \* useGraphStore.layoutedNodes: the rendered nodes
    layoutedEdges,          \* useGraphStore.layoutedEdges: the rendered edges
    isLayoutLoading,        \* useGraphStore.isLayoutLoading
    activePath,             \* useGraphStore.activePath
    activeTooltipEdgeId,    \* useGraphStore.activeTooltipEdgeId
    pathStartNodeId,        \* useGraphStore.pathStartNodeId
    pathEndNodeId,          \* useGraphStore.pathEndNodeId
    foundPaths,             \* useGraphStore.foundPaths
    pending,                \* computeLayout calls awaiting elk.layout, in call order
    processedPaths,         \* PathfindingPage local state
    sortedPaths,            \* PathfindingPage local state
    isSorted,               \* PathfindingPage local state
    activeTab,              \* PathfindingPage local state: "Nodes" | "Paths"
    selectedPathIndex,      \* PathfindingPage local state
    mountedWith,            \* values the unmount cleanup of PathfindingPage closed over
    timers                  \* pending setTimeout callbacks, in firing order

pathVars == <<variants, pathStartNodeId, pathEndNodeId, foundPaths, processedPaths,
              sortedPaths, isSorted, activeTab, timers>>

dataVars == <<graphData, startEndNodes, allNodes, allEdges>>

layoutVars == <<layoutedNodes, layoutedEdges, isLayoutLoading, pending>>

selectionVars == <<selectedNodeIds, selectedColorPalette, selectedPathNodes,
                   selectedPathEdges, appSelectedPathIndex, sidebarActiveTab,
                   activePath, selectedPathIndex, mountedWith,
                   activeTooltipEdgeId>>

vars == <<pathVars, dataVars, layoutVars, selectionVars>>

\* The store fields computeLayout reads and writes, as the record its model takes.
Layout ==
    [layoutedNodes |-> layoutedNodes,
     layoutedEdges |-> layoutedEdges,
     isLayoutLoading |-> isLayoutLoading,
     pending |-> pending]

SetLayout(layout) ==
    /\ layoutedNodes' = layout.layoutedNodes
    /\ layoutedEdges' = layout.layoutedEdges
    /\ isLayoutLoading' = layout.isLayoutLoading
    /\ pending' = layout.pending

\* Initial values of useAppStore (useAppStore.ts 135-153) and useGraphStore.
StoresInitial ==
    /\ graphData = None
    /\ startEndNodes = None
    /\ selectedNodeIds = {}
    /\ selectedColorPalette = "default"
    /\ selectedPathNodes = {}
    /\ selectedPathEdges = {}
    /\ appSelectedPathIndex = None
    /\ allNodes = <<>>
    /\ allEdges = <<>>
    /\ layoutedNodes = <<>>
    /\ layoutedEdges = <<>>
    /\ isLayoutLoading = FALSE
    /\ activePath = None
    /\ activeTooltipEdgeId = NULL
    /\ pending = <<>>

\* Initial values of the local state of PathfindingPage (page.tsx 65-73).
PageInitial ==
    /\ processedPaths = <<>>
    /\ sortedPaths = <<>>
    /\ isSorted = FALSE
    /\ activeTab = "Nodes"
    /\ selectedPathIndex = None

ResetPage ==
    /\ processedPaths' = <<>>
    /\ sortedPaths' = <<>>
    /\ isSorted' = FALSE
    /\ activeTab' = "Nodes"
    /\ selectedPathIndex' = None

\* The timer the search effect (page.tsx 261-279) schedules; it closes over its
\* arguments.  `live` is false once the page instance that set it is unmounted:
\* its local state setters then do nothing.
SearchTimer(startId, endId, variantList) ==
    [kind |-> "search", startId |-> startId, endId |-> endId,
     variantList |-> variantList, live |-> TRUE]

\* The search effect of page.tsx 261-279, run after a render in which one of
\* pathStartNodeId, pathEndNodeId, variants changed.
WillSearch(startId, endId, variantsNow) ==
    startId # NULL /\ endId # NULL /\ IsSome(variantsNow)

\* A search effect that sets no timer.
SearchEffect_NoTimer(queue, startId, endId, variantsNow) == queue

SearchEffect(queue, startId, endId, variantsNow) ==
    IF WillSearch(startId, endId, variantsNow)
    THEN Append(queue, SearchTimer(startId, endId, Get(variantsNow)))
    ELSE queue

\* The layout effect of LayoutContent (part_004 652-676), run after a render in
\* which allNodes, allEdges, selectedNodeIds or selectedColorPalette changed.
RootLayoutEffect(layout, nodes, edges, colorPaletteKey, nodeIds) ==
    IF Len(nodes) = 0 THEN layout
    ELSE ComputeLayout(layout, nodes, edges, PlainConfig(colorPaletteKey, nodeIds))

RemoveAt(s, i) == [k \in 1..(Len(s) - 1) |-> IF k < i THEN s[k] ELSE s[k + 1]]

(***************************************************************************)
(* The setTimeout callback of the search effect (page.tsx 265-277).        *)
(***************************************************************************)
SearchTimerFires ==
    /\ timers # <<>>
    /\ Head(timers).kind = "search"
    /\ LET t == Head(timers)
       IN  /\ foundPaths' = FindPathsBetweenNodes(t.startId, t.endId, t.variantList)
           /\ IF t.live
              THEN /\ processedPaths' = foundPaths'
                   /\ sortedPaths' = foundPaths'
                   /\ isSorted' = FALSE
                   /\ activeTab' = IF Len(foundPaths') > 0 THEN "Paths" ELSE activeTab
              ELSE UNCHANGED <<processedPaths, sortedPaths, isSorted, activeTab>>
    /\ timers' = Tail(timers)
    /\ UNCHANGED <<variants, pathStartNodeId, pathEndNodeId>>
    /\ UNCHANGED <<dataVars, layoutVars, selectionVars>>

(***************************************************************************)
(* processInitialData on its own (useGraphStore.ts 309-435).               *)
(***************************************************************************)
ProcessInitialDataCall ==
    /\ IsSome(graphData)
    /\ LET ingested == ProcessInitialData(Get(graphData), Get(startEndNodes).start,
                                          Get(startEndNodes).end)
       IN  /\ allNodes' = ingested.allNodes
           /\ allEdges' = ingested.allEdges
    /\ UNCHANGED <<graphData, startEndNodes, pathVars, layoutVars, selectionVars>>

(***************************************************************************)
(* New raw data arrives: loadGraph after its await (Navbar.tsx 83-97)      *)
(* calls setProcessedData (useAppStore.ts 162-178) and processInitialData; *)
(* the render that follows runs the layout effect of LayoutContent and, on *)
(* the pathfinding page, the search effect.                                *)
(***************************************************************************)
LoadGraph(d) ==
    /\ Len(pending) < MaxPending
    /\ (sidebarActiveTab = "Routing" /\ pathStartNodeId # NULL /\ pathEndNodeId # NULL)
           => Len(timers) < MaxTimers
    /\ graphData' = Some(d.graphData)
    /\ variants' = Some(d.variants)
    /\ startEndNodes' = Some([start |-> d.startActivities, end |-> d.endActivities])
    /\ selectedNodeIds' = {}
    /\ selectedPathNodes' = {}
    /\ selectedPathEdges' = {}
    /\ appSelectedPathIndex' = None
    /\ LET ingested == ProcessInitialData(d.graphData, d.startActivities, d.endActivities)
       IN  /\ allNodes' = ingested.allNodes
           /\ allEdges' = ingested.allEdges
    /\ SetLayout(RootLayoutEffect(Layout, allNodes', allEdges', selectedColorPalette, {}))
    /\ timers' = IF sidebarActiveTab = "Routing"
                 THEN SearchEffect(timers, pathStartNodeId, pathEndNodeId, variants')
                 ELSE timers
    /\ UNCHANGED <<selectedColorPalette, sidebarActiveTab, activePath, selectedPathIndex,
                   mountedWith, activeTooltipEdgeId, pathStartNodeId, pathEndNodeId, foundPaths,
                   processedPaths, sortedPaths, isSorted, activeTab>>

(***************************************************************************)
(* Filter page: handleCheckboxChange (part_005 164-169) toggles one node   *)
(* of the node filter; the layout effect of LayoutContent follows.         *)
(***************************************************************************)
ToggleNodeFilter(nodeId) ==
    /\ sidebarActiveTab = "Filter"
    /\ nodeId \in IdsOf(allNodes)
    /\ Len(pending) < MaxPending
    /\ selectedNodeIds' = IF nodeId \in selectedNodeIds
                          THEN selectedNodeIds \ {nodeId}
                          ELSE selectedNodeIds \cup {nodeId}
    /\ SetLayout(RootLayoutEffect(Layout, allNodes, allEdges, selectedColorPalette,
                                  selectedNodeIds'))
    /\ UNCHANGED <<pathVars, dataVars, selectedColorPalette, selectedPathNodes,
                   selectedPathEdges, appSelectedPathIndex, sidebarActiveTab,
                   activePath, selectedPathIndex, mountedWith, activeTooltipEdgeId>>

(***************************************************************************)
(* Settings page: handlePaletteChange (part_003 34-52) stores the palette  *)
(* and calls computeLayout; the layout effect of LayoutContent follows     *)
(* when the palette changed.                                               *)
(***************************************************************************)
ChangePalette(newPalette) ==
    /\ sidebarActiveTab = "Settings"
    /\ Len(pending) + 2 <= MaxPending
    /\ selectedColorPalette' = newPalette
    /\ LET direct == IF IsSome(graphData) /\ IsSome(startEndNodes)
                     THEN ComputeLayout(Layout, allNodes, allEdges,
                                        PlainConfig(newPalette, selectedNodeIds))
                     ELSE Layout
       IN  SetLayout(IF newPalette # selectedColorPalette
                     THEN RootLayoutEffect(direct, allNodes, allEdges, newPalette,
                                           selectedNodeIds)
                     ELSE direct)
    /\ UNCHANGED <<pathVars, dataVars, selectedNodeIds, selectedPathNodes,
                   selectedPathEdges, appSelectedPathIndex, sidebarActiveTab,
                   activePath, selectedPathIndex, mountedWith, activeTooltipEdgeId>>

(***************************************************************************)
(* The user opens another page.  Leaving the pathfinding page runs its     *)
(* unmount cleanup (page.tsx 282-302), which uses the filter and palette   *)
(* of the first render; the page's timers stay scheduled.  Entering it     *)
(* mounts a new instance, whose search effect runs (page.tsx 261-279).     *)
(***************************************************************************)
Navigate(tab) ==
    /\ tab # sidebarActiveTab
    /\ sidebarActiveTab' = tab
    /\ IF sidebarActiveTab = "Routing"
       THEN /\ Len(pending) < MaxPending
            /\ selectedPathNodes' = {}
            /\ selectedPathEdges' = {}
            /\ appSelectedPathIndex' = None
            /\ activePath' = None
            /\ SetLayout(ComputeLayout(Layout, allNodes, allEdges,
                    PlainConfig(Get(mountedWith).selectedColorPalette,
                                Get(mountedWith).selectedNodeIds)))
            /\ mountedWith' = None
            /\ timers' = [i \in DOMAIN timers |-> [timers[i] EXCEPT !.live = FALSE]]
       ELSE IF tab = "Routing"
       THEN /\ WillSearch(pathStartNodeId, pathEndNodeId, variants)
                => Len(timers) < MaxTimers
            /\ mountedWith' = Some([selectedColorPalette |-> selectedColorPalette,
                                    selectedNodeIds |-> selectedNodeIds])
            /\ timers' = SearchEffect(timers, pathStartNodeId, pathEndNodeId, variants)
            /\ UNCHANGED <<selectedPathNodes, selectedPathEdges, appSelectedPathIndex,
                           activePath, layoutVars>>
       ELSE UNCHANGED <<selectedPathNodes, selectedPathEdges, appSelectedPathIndex,
                        activePath, layoutVars, mountedWith, timers>>
    /\ ResetPage
    /\ UNCHANGED <<dataVars, variants, selectedNodeIds, selectedColorPalette,
                   pathStartNodeId, pathEndNodeId, foundPaths, activeTooltipEdgeId>>

(***************************************************************************)
(* handleNodeClick of the pathfinding page (page.tsx 305-335), followed by *)
(* the search effect when the selection changed.                           *)
(***************************************************************************)
NodeClickOutcome(startId, endId, nodeId) ==
    IF startId = NULL
    THEN [startId |-> nodeId, endId |-> endId, clearPaths |-> FALSE]
    ELSE IF endId = NULL /\ nodeId # startId
    THEN [startId |-> startId, endId |-> nodeId, clearPaths |-> FALSE]
    ELSE IF nodeId = startId
    THEN [startId |-> NULL, endId |-> NULL, clearPaths |-> TRUE]
    ELSE IF nodeId = endId
    THEN [startId |-> startId, endId |-> NULL, clearPaths |-> TRUE]
    ELSE [startId |-> nodeId, endId |-> NULL, clearPaths |-> TRUE]

PageNodeClick(nodeId) ==
    /\ sidebarActiveTab = "Routing"
    /\ nodeId \in IdsOf(allNodes)
    /\ LET outcome == NodeClickOutcome(pathStartNodeId, pathEndNodeId, nodeId)
           changed == <<outcome.startId, outcome.endId>>
                          # <<pathStartNodeId, pathEndNodeId>>
       IN  /\ (changed /\ WillSearch(outcome.startId, outcome.endId, variants))
                  => Len(timers) < MaxTimers
           /\ pathStartNodeId' = outcome.startId
           /\ pathEndNodeId' = outcome.endId
           /\ IF outcome.clearPaths
              THEN /\ foundPaths' = <<>>
                   /\ processedPaths' = <<>>
                   /\ sortedPaths' = <<>>
                   /\ selectedPathIndex' = None
              ELSE UNCHANGED <<foundPaths, processedPaths, sortedPaths, selectedPathIndex>>
           /\ timers' = IF changed
                        THEN SearchEffect(timers, outcome.startId, outcome.endId, variants)
                        ELSE timers
    /\ UNCHANGED <<variants, isSorted, activeTab, dataVars, layoutVars,
                   selectedNodeIds, selectedColorPalette, selectedPathNodes,
                   selectedPathEdges, appSelectedPathIndex, sidebarActiveTab,
                   activePath, mountedWith, activeTooltipEdgeId>>

\* The list PathList is given (page.tsx 720); `paths` is the store's foundPaths (480).
DisplayedPaths ==
    IF Len(sortedPaths) > 0 THEN sortedPaths
    ELSE IF Len(processedPaths) > 0 THEN processedPaths
    ELSE foundPaths

\* Lines 378-385 and Array.from(edgeIds): the edge ids of the consecutive pairs, each
\* once, in order of first occurrence.
RECURSIVE PathEdgeIds(_, _, _)
PathEdgeIds(nodes, i, acc) ==
    IF i >= Len(nodes) THEN acc
    ELSE LET edgeId == EdgeId(nodes[i], nodes[i + 1])
         IN  PathEdgeIds(nodes, i + 1,
                         IF Includes(acc, edgeId) THEN acc ELSE Append(acc, edgeId))

\* Lines 396-402.  The summed totals are integers; they are given as rationals,
\* the type formatDuration takes here.
ActivePathInfoData(path) ==
    [nodes |-> path.nodes,
     edges |-> PathEdgeIds(path.nodes, 1, <<>>),
     edgeDurations |-> IF IsSome(path._specificEdgeDurations)
                       THEN Get(path._specificEdgeDurations) ELSE EmptyMap,
     edgeTotalDurations |->
         IF IsSome(path._specificTotalDurations)
         THEN [e \in DOMAIN Get(path._specificTotalDurations) |->
                  Rat(Get(path._specificTotalDurations)[e], 1)]
         ELSE EmptyMap,
     frequency |-> IF path._frequency # 0 THEN path._frequency ELSE path.frequency]

(***************************************************************************)
(* handleSelectPath of the pathfinding page (page.tsx 369-413).            *)
(***************************************************************************)
HandleSelectPath(index) ==
    /\ sidebarActiveTab = "Routing"
    /\ index \in 0..(Len(DisplayedPaths) - 1)
    /\ Len(pending) < MaxPending
    /\ LET path == DisplayedPaths[index + 1]
           info == ActivePathInfoData(path)
       IN  /\ selectedPathIndex' = Some(index)
           /\ appSelectedPathIndex' = Some(index)
           /\ selectedPathNodes' = Range(path.nodes)
           /\ selectedPathEdges' = Range(info.edges)
           /\ activePath' = Some(path)
           /\ SetLayout(ComputeLayout(Layout, allNodes, allEdges,
                 [colorPaletteKey |-> selectedColorPalette,
                  filteredNodeIds |-> Range(path.nodes),
                  filteredEdgeIds |-> Some(Range(info.edges)),
                  activePathInfo |-> Some(info),
                  searchCasePathInfo |-> None]))
    /\ UNCHANGED <<pathVars, dataVars, selectedNodeIds, selectedColorPalette,
                   sidebarActiveTab, mountedWith, activeTooltipEdgeId>>

\* prev.filter((_, i) => i !== index)
WithoutIndex(prev, index) ==
    IF index < Len(prev) THEN RemoveAt(prev, index + 1) ELSE prev

(***************************************************************************)
(* removePath of the pathfinding page (page.tsx 445-471).                  *)
(***************************************************************************)
RemovePath(index) ==
    /\ sidebarActiveTab = "Routing"
    /\ index \in 0..(Len(DisplayedPaths) - 1)
    /\ processedPaths' = WithoutIndex(processedPaths, index)
    /\ sortedPaths' = WithoutIndex(sortedPaths, index)
    /\ IF selectedPathIndex = Some(index)
       THEN /\ Len(pending) < MaxPending
            /\ selectedPathIndex' = None
            /\ selectedPathNodes' = {}
            /\ selectedPathEdges' = {}
            /\ appSelectedPathIndex' = None
            /\ SetLayout(ComputeLayout(Layout, allNodes, allEdges,
                                       PlainConfig(selectedColorPalette, selectedNodeIds)))
       ELSE /\ selectedPathIndex' =
                   IF IsSome(selectedPathIndex) /\ Get(selectedPathIndex) > index
                   THEN Some(Get(selectedPathIndex) - 1)
                   ELSE selectedPathIndex
            /\ UNCHANGED <<selectedPathNodes, selectedPathEdges, appSelectedPathIndex,
                           layoutVars>>
    /\ UNCHANGED <<variants, pathStartNodeId, pathEndNodeId, foundPaths, isSorted,
                   activeTab, timers, dataVars, selectedNodeIds,
                   selectedColorPalette, sidebarActiveTab, activePath, mountedWith, activeTooltipEdgeId>>

(***************************************************************************)
(* resetPathfinding of the pathfinding page (page.tsx 416-442).            *)
(***************************************************************************)
ResetPathfinding ==
    /\ sidebarActiveTab = "Routing"
    /\ Len(pending) < MaxPending
    /\ pathStartNodeId' = NULL
    /\ pathEndNodeId' = NULL
    /\ foundPaths' = <<>>
    /\ ResetPage
    /\ selectedPathNodes' = {}
    /\ selectedPathEdges' = {}
    /\ appSelectedPathIndex' = None
    /\ activePath' = None
    /\ SetLayout(ComputeLayout(Layout, allNodes, allEdges,
                               PlainConfig(selectedColorPalette, selectedNodeIds)))
    /\ UNCHANGED <<variants, timers, dataVars, selectedNodeIds,
                   selectedColorPalette, sidebarActiveTab, mountedWith, activeTooltipEdgeId>>

(***************************************************************************)
(* elk.layout settles for one of the calls in flight, in any order.        *)
(* Fulfilled: useGraphStore.ts 612-699.  Rejected: the catch of 703-706.   *)
(***************************************************************************)
\* A computeLayout that drops the result of a superseded call: only the call
\* issued last writes the rendered lists.
LayoutResolve_LatestOnly(i) ==
    /\ i \in DOMAIN pending
    /\ LET result == LayoutResult(pending[i])
       IN  /\ layoutedNodes' = IF i = Len(pending) THEN result.layoutedNodes
                               ELSE layoutedNodes
           /\ layoutedEdges' = IF i = Len(pending) THEN result.layoutedEdges
                               ELSE layoutedEdges
    /\ isLayoutLoading' = FALSE
    /\ pending' = RemoveAt(pending, i)
    /\ UNCHANGED <<pathVars, dataVars, selectionVars>>

\* Lines 695-699 as two updates of which a reader sees the first: the node list
\* of the fulfilled call next to the edge list that was there before.
LayoutResolve_NodesOnly(i) ==
    /\ i \in DOMAIN pending
    /\ layoutedNodes' = LayoutResult(pending[i]).layoutedNodes
    /\ layoutedEdges' = layoutedEdges
    /\ isLayoutLoading' = FALSE
    /\ pending' = RemoveAt(pending, i)
    /\ UNCHANGED <<pathVars, dataVars, selectionVars>>

LayoutResolve(i) ==
    /\ i \in DOMAIN pending
    /\ LET result == LayoutResult(pending[i])
       IN  /\ layoutedNodes' = result.layoutedNodes
           /\ layoutedEdges' = result.layoutedEdges
    /\ isLayoutLoading' = FALSE
    /\ pending' = RemoveAt(pending, i)
    /\ UNCHANGED <<pathVars, dataVars, selectionVars>>

\* A catch that blanks the graph: the rendered lists are emptied on failure.
LayoutReject_ClearsLists(i) ==
    /\ i \in DOMAIN pending
    /\ layoutedNodes' = <<>>
    /\ layoutedEdges' = <<>>
    /\ isLayoutLoading' = FALSE
    /\ pending' = RemoveAt(pending, i)
    /\ UNCHANGED <<pathVars, dataVars, selectionVars>>

LayoutReject(i) ==
    /\ i \in DOMAIN pending
    /\ isLayoutLoading' = FALSE
    /\ pending' = RemoveAt(pending, i)
    /\ UNCHANGED <<layoutedNodes, layoutedEdges, pathVars, dataVars, selectionVars>>

(***************************************************************************)
(* Spec: the application from its first render on the filter page.         *)
(***************************************************************************)
Init ==
    /\ StoresInitial
    /\ PageInitial
    /\ variants = None
    /\ sidebarActiveTab = "Filter"
    /\ pathStartNodeId = NULL
    /\ pathEndNodeId = NULL
    /\ foundPaths = <<>>
    /\ mountedWith = None
    /\ timers = <<>>

Next ==
    \/ \E d \in Datasets : LoadGraph(d)
    \/ \E nodeId \in FilterIds : ToggleNodeFilter(nodeId)
    \/ \E newPalette \in PaletteChoices : ChangePalette(newPalette)
    \/ \E tab \in Tabs : Navigate(tab)
    \/ \E nodeId \in ClickIds : PageNodeClick(nodeId)
    \/ SearchTimerFires
    \/ \E index \in 0..1 : HandleSelectPath(index)
    \/ \E index \in 0..1 : RemovePath(index)
    \/ ResetPathfinding
    \/ \E i \in 1..MaxPending : LayoutResolve(i)
    \/ \E i \in 1..MaxPending : LayoutReject(i)

Spec == Init /\ [][Next]_vars

(***************************************************************************)
(* SpecPath: findPathsBetweenNodes on every input of the bounded sets.     *)
(* The pathfinding page has both endpoints selected and its search timer   *)
(* is pending; the rest of the state keeps its initial values.             *)
(***************************************************************************)
InitPath ==
    /\ StoresInitial
    /\ PageInitial
    /\ sidebarActiveTab = "Routing"
    /\ mountedWith = Some([selectedColorPalette |-> "default", selectedNodeIds |-> {}])
    /\ \E variantList \in SingleVariantInputs \cup MultiVariantInputs :
          variants = Some(variantList)
    /\ LET S == IF Len(Get(variants)) = 1 THEN Activities ELSE AggActivities
       IN  /\ pathStartNodeId \in PickableIds(S)
           /\ pathEndNodeId \in PickableIds(S)
    /\ pathStartNodeId # pathEndNodeId
    /\ foundPaths = <<>>
    /\ timers = <<SearchTimer(pathStartNodeId, pathEndNodeId, Get(variants))>>

NextPath == SearchTimerFires

SpecPath == InitPath /\ [][NextPath]_vars

(***************************************************************************)
(* SpecIngest: processInitialData on every input of the bounded sets; the  *)
(* rest of the state keeps its initial values.                             *)
(***************************************************************************)
InitIngest ==
    /\ graphData \in {Some(records) : records \in SeqsOf(GraphRecords, 0, MaxRecords)}
    /\ startEndNodes \in {Some([start |-> s, end |-> e]) :
                             s \in StartActivityLists, e \in EndActivityLists}
    /\ selectedNodeIds = {}
    /\ selectedColorPalette = "default"
    /\ selectedPathNodes = {}
    /\ selectedPathEdges = {}
    /\ appSelectedPathIndex = None
    /\ allNodes = <<>>
    /\ allEdges = <<>>
    /\ layoutedNodes = <<>>
    /\ layoutedEdges = <<>>
    /\ isLayoutLoading = FALSE
    /\ activePath = None
    /\ activeTooltipEdgeId = NULL
    /\ pending = <<>>
    /\ PageInitial
    /\ variants = Some(<<>>)
    /\ sidebarActiveTab = "Filter"
    /\ pathStartNodeId = NULL
    /\ pathEndNodeId = NULL
    /\ foundPaths = <<>>
    /\ mountedWith = None
    /\ timers = <<>>

NextIngest == ProcessInitialDataCall

SpecIngest == InitIngest /\ [][NextIngest]_vars

(***************************************************************************)
(* The configs the callers of computeLayout pass.                          *)
(***************************************************************************)
\* What handleSelectPath of the pathfinding page passes for `path` (page.tsx
\* 387-411).  The outlier list of the same file and displayPathInGraph of the
\* case search pass the same shape: the path's node sequence, the distinct
\* ids of its edges, and both as the filter sets.
PathConfig(colorPaletteKey, path) ==
    LET info == ActivePathInfoData(path)
    IN  [colorPaletteKey |-> colorPaletteKey,
         filteredNodeIds |-> Range(path.nodes),
         filteredEdgeIds |-> Some(Range(info.edges)),
         activePathInfo |-> Some(info),
         searchCasePathInfo |-> None]

\* Array.from(new Set(ids)): each id once, in order of first insertion.
RECURSIVE ArrayFromSet(_, _)
ArrayFromSet(ids, acc) ==
    IF ids = <<>> THEN acc
    ELSE ArrayFromSet(Tail(ids),
                      IF Includes(acc, Head(ids)) THEN acc ELSE Append(acc, Head(ids)))

\* Dashboard.tsx 138-154.  `d` is what Dashboard reads from useAppStore; the two
\* path Sets are given as their Array.from.
LayoutFilters(d) ==
    IF /\ d.sidebarActiveTab \in {"SearchCaseIds", "Outliers", "Routing"}
       /\ Len(d.selectedPathNodes) > 0
    THEN [nodes |-> Range(d.selectedPathNodes),
          edges |-> Some(Range(d.selectedPathEdges))]
    ELSE [nodes |-> IF IsSome(d.selectedPathIndex)
                    THEN Range(d.selectedPathNodes) ELSE d.selectedNodeIds,
          edges |-> IF IsSome(d.selectedPathIndex)
                    THEN Some(Range(d.selectedPathEdges)) ELSE None]

\* Dashboard.tsx 165-178 and 189-201.
SelectionPathInfo(pathNodes, pathEdges) ==
    [nodes |-> pathNodes,
     edges |-> IF Len(pathEdges) = 0 /\ Len(pathNodes) > 1
               THEN [i \in 1..(Len(pathNodes) - 1) |-> EdgeId(pathNodes[i], pathNodes[i + 1])]
               ELSE pathEdges]

\* Dashboard.tsx 158-179.
DashboardActivePathInfo(d) ==
    IF d.sidebarActiveTab # "Outliers" /\ d.sidebarActiveTab # "Routing" THEN None
    ELSE IF Len(d.selectedPathNodes) = 0 THEN None
    ELSE Some(SelectionPathInfo(d.selectedPathNodes, d.selectedPathEdges))

\* Dashboard.tsx 183-202.
DashboardSearchCasePathInfo(d) ==
    IF d.sidebarActiveTab # "SearchCaseIds" THEN None
    ELSE IF Len(d.selectedPathNodes) = 0 THEN None
    ELSE Some(SelectionPathInfo(d.selectedPathNodes, d.selectedPathEdges))

\* Dashboard.tsx 306-314.
DashboardConfig(d) ==
    [colorPaletteKey |-> d.selectedColorPalette,
     filteredNodeIds |-> LayoutFilters(d).nodes,
     filteredEdgeIds |-> LayoutFilters(d).edges,
     activePathInfo |-> DashboardActivePathInfo(d),
     searchCasePathInfo |-> DashboardSearchCasePathInfo(d)]

(***************************************************************************)
(* Inputs of computeLayout.  A graph is what processInitialData stored, or *)
(* nothing yet; the backend's filters can leave out of it activities that  *)
(* the variants, and so the paths, still visit.                            *)
(***************************************************************************)
LayoutDatasets ==
    {[graphData |-> <<GraphRecord("A", "B", Stats(1, 1, 10)),
                      GraphRecord("B", "C", Stats(2, 1, 10)),
                      GraphRecord("A", "C", Stats(1, 2, 30))>>,
      startActivities |-> <<"A">>,
      endActivities |-> <<"C">>],
     [graphData |-> <<GraphRecord("B", "C", Stats(2, 1, 10))>>,
      startActivities |-> <<"B">>,
      endActivities |-> <<"C">>]}

LayoutGraphs ==
    {[allNodes |-> <<>>, allEdges |-> <<>>]}
        \cup {ProcessInitialData(d.graphData, d.startActivities, d.endActivities) :
                  d \in LayoutDatasets}

\* Node sequences of the paths a user selects; a case can visit an activity twice.
LayoutPathSeqs ==
    {<<"A", "B">>, <<"A", "B", "C">>, <<"A", "B", "A">>, <<"A", "B", "A", "C">>}

LayoutVariant(p) == Variant(p, 1, [i \in DOMAIN p |-> 10 * (i - 1)])

\* The paths the pathfinding page lists for the whole variant.
PagePaths ==
    {FindPathsBetweenNodes(START_NODE, END_NODE, <<LayoutVariant(p)>>)[1] :
        p \in LayoutPathSeqs}

\* The paths the store's handleNodeClick lists for the whole variant.
StorePaths ==
    {StoreValidPaths(START_NODE, END_NODE, <<LayoutVariant(p)>>)[1] : p \in LayoutPathSeqs}

LayoutFilterSets == {{}, {"A"}, {"A", "B"}, {"A", "B", "C"}}

\* Configs of the callers other than Dashboard.
CallerConfigs ==
    {PlainConfig("default", F) : F \in LayoutFilterSets}
        \cup {PathConfig("default", path) : path \in PagePaths}

\* The path selection useAppStore holds: none (initially, and after
\* resetPathfinding); the clicked start node, or start and end node, with no edges
\* (useGraphStore.ts 922-923 and 930-932); a path chosen with the store's
\* handleSelectPath (935-938).
DashboardSelections ==
    {[nodes |-> <<>>, edges |-> <<>>, index |-> None],
     [nodes |-> <<"A">>, edges |-> <<>>, index |-> None],
     [nodes |-> <<"A", "C">>, edges |-> <<>>, index |-> None]}
        \cup {[nodes |-> ArrayFromSet(path.nodes, <<>>),
               edges |-> ArrayFromSet(path.edges, <<>>),
               index |-> Some(0)] : path \in StorePaths}

DashboardTabs == {"Filter", "Routing", "Outliers", "SearchCaseIds"}

DashboardStates ==
    {[sidebarActiveTab |-> tab,
      selectedColorPalette |-> "default",
      selectedNodeIds |-> F,
      selectedPathNodes |-> sel.nodes,
      selectedPathEdges |-> sel.edges,
      selectedPathIndex |-> sel.index] :
        tab \in DashboardTabs, F \in {{}, {"A"}}, sel \in DashboardSelections}

MaxInFlight == 1

(***************************************************************************)
(* SpecLayout: computeLayout on every graph and config of the bounded      *)
(* sets, called by the pages or by Dashboard's layout effect, and          *)
(* elk.layout settling.  The rest of the state keeps its initial values.   *)
(***************************************************************************)
\* A page calls computeLayout with a config of `configs` while fewer than
\* `limit` calls are in flight.
CallComputeLayout(limit, configs) ==
    /\ Len(pending) < limit
    /\ \E config \in configs :
          SetLayout(ComputeLayout(Layout, allNodes, allEdges, config))
    /\ UNCHANGED <<pathVars, dataVars, selectionVars>>

\* Dashboard.tsx 301-314.
DashboardLayoutEffect ==
    /\ Len(pending) < MaxInFlight
    /\ \E d \in DashboardStates :
          LET config == DashboardConfig(d)
          IN  /\ ~(/\ Len(allNodes) = 0
                   /\ ~IsSome(config.activePathInfo)
                   /\ ~IsSome(config.searchCasePathInfo))
              /\ SetLayout(ComputeLayout(Layout, allNodes, allEdges, config))
    /\ UNCHANGED <<pathVars, dataVars, selectionVars>>

InitLayout ==
    /\ graphData = None
    /\ startEndNodes = None
    /\ selectedNodeIds = {}
    /\ selectedColorPalette = "default"
    /\ selectedPathNodes = {}
    /\ selectedPathEdges = {}
    /\ appSelectedPathIndex = None
    /\ \E graph \in LayoutGraphs :
          /\ allNodes = graph.allNodes
          /\ allEdges = graph.allEdges
    /\ layoutedNodes = <<>>
    /\ layoutedEdges = <<>>
    /\ isLayoutLoading = FALSE
    /\ activePath = None
    /\ activeTooltipEdgeId = NULL
    /\ pending = <<>>
    /\ PageInitial
    /\ variants = None
    /\ sidebarActiveTab = "Filter"
    /\ pathStartNodeId = NULL
    /\ pathEndNodeId = NULL
    /\ foundPaths = <<>>
    /\ mountedWith = None
    /\ timers = <<>>

NextLayout ==
    \/ CallComputeLayout(MaxInFlight, CallerConfigs)
    \/ DashboardLayoutEffect
    \/ \E i \in 1..MaxInFlight : LayoutResolve(i)
    \/ \E i \in 1..MaxInFlight : LayoutReject(i)

SpecLayout == InitLayout /\ [][NextLayout]_vars

(***************************************************************************)
(* SpecRace: raw data arrives and is ingested once or again; calls of      *)
(* computeLayout, before and after, overlap; elk.layout fulfils every one  *)
(* of them, in any order.                                                  *)
(***************************************************************************)
RaceConfigs ==
    {PlainConfig("default", {}), PlainConfig("default", {"A"})}
        \cup {PathConfig("default", path) :
                  path \in {q \in PagePaths : q.nodes \in {<<"A", "B">>, <<"A", "B", "A">>}}}

InitRace ==
    /\ \E d \in LayoutDatasets :
          /\ graphData = Some(d.graphData)
          /\ startEndNodes = Some([start |-> d.startActivities, end |-> d.endActivities])
    /\ selectedNodeIds = {}
    /\ selectedColorPalette = "default"
    /\ selectedPathNodes = {}
    /\ selectedPathEdges = {}
    /\ appSelectedPathIndex = None
    /\ allNodes = <<>>
    /\ allEdges = <<>>
    /\ layoutedNodes = <<>>
    /\ layoutedEdges = <<>>
    /\ isLayoutLoading = FALSE
    /\ activePath = None
    /\ activeTooltipEdgeId = NULL
    /\ pending = <<>>
    /\ PageInitial
    /\ variants = None
    /\ sidebarActiveTab = "Filter"
    /\ pathStartNodeId = NULL
    /\ pathEndNodeId = NULL
    /\ foundPaths = <<>>
    /\ mountedWith = None
    /\ timers = <<>>

NextRace ==
    \/ ProcessInitialDataCall
    \/ CallComputeLayout(MaxPending, RaceConfigs)
    \/ \E i \in 1..MaxPending : LayoutResolve(i)

SpecRace == InitRace /\ [][NextRace]_vars

(***************************************************************************)
(* SpecFail: a graph is ingested and its first layout is on screen; from   *)
(* then on elk.layout rejects every call.                                  *)
(***************************************************************************)
\* What is on screen after the first layout of the ingested graph.
FirstLayout ==
    LayoutResult(LayoutRequest(allNodes, allEdges, PlainConfig("default", {})))

InitFail ==
    /\ \E d \in LayoutDatasets :
          /\ graphData = Some(d.graphData)
          /\ startEndNodes = Some([start |-> d.startActivities, end |-> d.endActivities])
    /\ selectedNodeIds = {}
    /\ selectedColorPalette = "default"
    /\ selectedPathNodes = {}
    /\ selectedPathEdges = {}
    /\ appSelectedPathIndex = None
    /\ \E ingested \in {ProcessInitialData(Get(graphData), Get(startEndNodes).start,
                                           Get(startEndNodes).end)} :
          /\ allNodes = ingested.allNodes
          /\ allEdges = ingested.allEdges
    /\ layoutedNodes = FirstLayout.layoutedNodes
    /\ layoutedEdges = FirstLayout.layoutedEdges
    /\ isLayoutLoading = FALSE
    /\ activePath = None
    /\ activeTooltipEdgeId = NULL
    /\ pending = <<>>
    /\ PageInitial
    /\ variants = None
    /\ sidebarActiveTab = "Filter"
    /\ pathStartNodeId = NULL
    /\ pathEndNodeId = NULL
    /\ foundPaths = <<>>
    /\ mountedWith = None
    /\ timers = <<>>

NextFail ==
    \/ CallComputeLayout(MaxPending, CallerConfigs)
    \/ \E i \in 1..MaxPending : LayoutReject(i)

SpecFail == InitFail /\ [][NextFail]_vars

(***************************************************************************)
(* SpecSelect: the pathfinding page after new raw data was ingested and    *)
(* laid out and a start and an end node were clicked: the search timer is  *)
(* pending.  The search lists the paths, the user selects paths, and       *)
(* elk.layout fulfils the calls.                                           *)
(***************************************************************************)
\* Dataset1, and the same data after a backend filter that removed every edge
\* of B from the graph while the variants still visit B.
SelectDatasets ==
    {Dataset1,
     [Dataset1 EXCEPT !.graphData = <<GraphRecord("A", "C", Stats(1, 2, 30))>>]}

InitSelect ==
    /\ \E d \in SelectDatasets :
          /\ graphData = Some(d.graphData)
          /\ variants = Some(d.variants)
          /\ startEndNodes = Some([start |-> d.startActivities, end |-> d.endActivities])
    /\ selectedNodeIds = {}
    /\ selectedColorPalette = "default"
    /\ selectedPathNodes = {}
    /\ selectedPathEdges = {}
    /\ appSelectedPathIndex = None
    /\ \E ingested \in {ProcessInitialData(Get(graphData), Get(startEndNodes).start,
                                           Get(startEndNodes).end)} :
          /\ allNodes = ingested.allNodes
          /\ allEdges = ingested.allEdges
    /\ \E result \in {LayoutResult(LayoutRequest(allNodes, allEdges,
                                                 PlainConfig("default", {})))} :
          /\ layoutedNodes = result.layoutedNodes
          /\ layoutedEdges = result.layoutedEdges
    /\ isLayoutLoading = FALSE
    /\ activePath = None
    /\ activeTooltipEdgeId = NULL
    /\ pending = <<>>
    /\ PageInitial
    /\ sidebarActiveTab = "Routing"
    /\ mountedWith = Some([selectedColorPalette |-> "default", selectedNodeIds |-> {}])
    /\ pathStartNodeId \in {"A", START_NODE}
    /\ pathEndNodeId \in {"C", END_NODE}
    /\ foundPaths = <<>>
    /\ timers = <<SearchTimer(pathStartNodeId, pathEndNodeId, Get(variants))>>

NextSelect ==
    \/ SearchTimerFires
    \/ \E index \in 0..1 : HandleSelectPath(index)
    \/ \E i \in 1..MaxPending : LayoutResolve(i)

SpecSelect == InitSelect /\ [][NextSelect]_vars

(***************************************************************************)
(* Selection handlers of useGraphStore and what Graph draws.  Stroke       *)
(* widths, z-indices and the tooltip texts are left out.                   *)
(***************************************************************************)
StyleOf(edge) == IF "style" \in DOMAIN edge THEN edge.style ELSE <<>>

\* (edge.data as any)?.originalStroke || fallback
OriginalStrokeOr(edge, fallback) ==
    IF "originalStroke" \in DOMAIN edge.data THEN edge.data.originalStroke ELSE fallback

\* { ...edge, selected, style: { ...edge.style, stroke } }
Restyled(edge, selected, stroke) ==
    Spread(edge, [selected |-> selected,
                  style |-> Spread(StyleOf(edge), [stroke |-> stroke])])

Deselected(nodes) == [i \in DOMAIN nodes |-> Spread(nodes[i], [selected |-> FALSE])]

\* The selection variables of useAppStore and of the pathfinding page.
appSelectionVars == <<selectedNodeIds, selectedColorPalette, selectedPathNodes,
                      selectedPathEdges, appSelectedPathIndex, sidebarActiveTab,
                      activePath, selectedPathIndex, mountedWith>>

\* useGraphStore.ts 722-794, for a click on a rendered edge.
HandleEdgeSelect(edgeId) ==
    /\ edgeId \in IdsOf(layoutedEdges)
    /\ layoutedEdges' =
           [i \in DOMAIN layoutedEdges |->
               Restyled(layoutedEdges[i], layoutedEdges[i].id = edgeId,
                        IF layoutedEdges[i].id = edgeId
                        THEN "#FFC107"
                        ELSE OriginalStrokeOr(layoutedEdges[i], "#3b82f6"))]
    /\ activeTooltipEdgeId' = edgeId
    /\ layoutedNodes' = Deselected(layoutedNodes)
    /\ UNCHANGED <<isLayoutLoading, pending, pathVars, dataVars, appSelectionVars>>

\* useGraphStore.ts 796-877: handleNodeClick outside pathfinding mode.
HandleNodeSelect(nodeId) ==
    /\ nodeId \in IdsOf(layoutedNodes)
    /\ activeTooltipEdgeId' = NULL
    /\ layoutedNodes' =
           [i \in DOMAIN layoutedNodes |->
               Spread(layoutedNodes[i], [selected |-> layoutedNodes[i].id = nodeId])]
    /\ layoutedEdges' =
           [i \in DOMAIN layoutedEdges |->
               LET edge == layoutedEdges[i]
               IN  Restyled(edge, edge.source = nodeId \/ edge.target = nodeId,
                            IF edge.source = nodeId THEN "#ef4444"
                            ELSE IF edge.target = nodeId THEN "#a6058eff"
                            ELSE OriginalStrokeOr(edge, "#05ff69ff"))]
    /\ UNCHANGED <<isLayoutLoading, pending, pathVars, dataVars, appSelectionVars>>

\* useGraphStore.ts 978-997.
CloseEdgeTooltip ==
    /\ layoutedEdges' =
           [i \in DOMAIN layoutedEdges |->
               Restyled(layoutedEdges[i], FALSE,
                        OriginalStrokeOr(layoutedEdges[i], "#3b82f6"))]
    /\ activeTooltipEdgeId' = NULL
    /\ UNCHANGED <<layoutedNodes, isLayoutLoading, pending, pathVars, dataVars,
                   appSelectionVars>>

\* useGraphStore.ts 954-976 (onPaneClick, 999-1002, does the same): the node
\* card is closed, then closeEdgeTooltip runs.
CloseNodeTooltip ==
    /\ layoutedNodes' = Deselected(layoutedNodes)
    /\ layoutedEdges' =
           [i \in DOMAIN layoutedEdges |->
               Restyled(layoutedEdges[i], FALSE,
                        OriginalStrokeOr(layoutedEdges[i], "#3b82f6"))]
    /\ activeTooltipEdgeId' = NULL
    /\ UNCHANGED <<isLayoutLoading, pending, pathVars, dataVars, appSelectionVars>>

IsSelected(elem) == "selected" \in DOMAIN elem /\ elem.selected

\* The two Graph components of the repository: part_008 286-749 and 750-1379.
GraphCopies == {"Graph", "GraphLegacy"}

\* The stroke Graph hands to React Flow for an edge of layoutedEdges
\* (part_008 579-589 and 1245-1249).
RenderedStroke(graph, edge) ==
    IF ~IsGhost(edge) THEN StyleOf(edge).stroke
    ELSE IF edge.id = activeTooltipEdgeId THEN "#FFC107"
    ELSE IF graph = "Graph" THEN GhostAccent
    ELSE IF IsSelected(edge) \/ "stroke" \in DOMAIN StyleOf(edge)
         THEN StyleOf(edge).stroke
         ELSE GhostAccent

(***************************************************************************)
(* SpecStyle: layouts under two palettes, with and without an active path, *)
(* and the user selecting edges and nodes and closing the tooltips.        *)
(***************************************************************************)
StyleConfigs ==
    {PlainConfig(p, {}) : p \in {"default", "palette1"}}
        \cup {PathConfig(p, path) : p \in {"default", "palette1"},
                                    path \in {q \in PagePaths : q.nodes = <<"A", "B", "A">>}}

NextStyle ==
    \/ CallComputeLayout(MaxInFlight, StyleConfigs)
    \/ \E i \in 1..MaxInFlight : LayoutResolve(i)
    \/ \E source \in Activities, target \in Activities :
          HandleEdgeSelect(EdgeId(source, target))
    \/ \E nodeId \in Activities : HandleNodeSelect(nodeId)
    \/ CloseEdgeTooltip
    \/ CloseNodeTooltip

SpecStyle == InitLayout /\ [][NextStyle]_vars

(***************************************************************************)
(* The outliers page (page.tsx 754-1000): every outlier variant becomes a  *)
(* path, the paths are listed by rising frequency, and a click on one      *)
(* makes it the active path.                                               *)
(***************************************************************************)
\* The loop of lines 827-843; acc is edgeStats: its keys in insertion order, and
\* sum and count per key.
RECURSIVE OutlierEdgeStats(_, _, _)
OutlierEdgeStats(variant, i, acc) ==
    IF ~(i < Len(variant.Variant_Path) - 1) THEN acc
    ELSE
        LET edgeId == EdgeId(variant.Variant_Path[i + 1], variant.Variant_Path[i + 2])
            duration == variant.Avg_Timings[i + 2] - variant.Avg_Timings[i + 1]
        IN  OutlierEdgeStats(variant, i + 1,
                IF Len(variant.Avg_Timings) > i + 1
                THEN [keys |-> IF edgeId \in DOMAIN acc.sum THEN acc.keys
                               ELSE Append(acc.keys, edgeId),
                      sum |-> MapSet(acc.sum, edgeId, MapGetOr0(acc.sum, edgeId) + duration),
                      count |-> MapSet(acc.count, edgeId, MapGetOr0(acc.count, edgeId) + 1)]
                ELSE acc)

\* Lines 821-881: the path of one outlier variant.
OutlierPath(variant) ==
    LET nodes == variant.Variant_Path
        timings == variant.Avg_Timings
        edgeStats == OutlierEdgeStats(variant, 0,
                         [keys |-> <<>>, sum |-> EmptyMap, count |-> EmptyMap])
    IN  [nodes |-> nodes,
         edges |-> edgeStats.keys,
         totalDuration |-> IF Len(timings) > 0 THEN timings[Len(timings)] - timings[1] ELSE 0,
         _startIndex |-> 0,
         _endIndex |-> Len(nodes) - 1,
         _fullPathNodes |-> nodes,
         _frequency |-> variant.Frequency,
         _variantTimings |-> Some(timings),
         _pathType |-> "absolute",
         _specificEdgeDurations |->
             Some([e \in DOMAIN edgeStats.sum |-> Rat(edgeStats.sum[e], edgeStats.count[e])]),
         _specificTotalDurations |-> Some(edgeStats.sum),
         _specificEdgeCounts |-> Some(edgeStats.count)]

\* Array.prototype.sort with (a, b) => (a._frequency || 0) - (b._frequency || 0).
RECURSIVE InsertByFrequencyAsc(_, _)
InsertByFrequencyAsc(x, sorted) ==
    IF sorted = <<>> THEN <<x>>
    ELSE IF x._frequency <= Head(sorted)._frequency THEN <<x>> \o sorted
    ELSE <<Head(sorted)>> \o InsertByFrequencyAsc(x, Tail(sorted))

\* Lines 818-891: sortedPaths of the outliers page.
RECURSIVE OutlierSortedPaths(_)
OutlierSortedPaths(outliers) ==
    IF outliers = <<>> THEN <<>>
    ELSE InsertByFrequencyAsc(OutlierPath(Head(outliers)),
                              OutlierSortedPaths(Tail(outliers)))

\* The outlier lists of useAppStore.outliers: one variant, which can take a
\* transition twice, or two short ones.
OutlierInputs ==
    {<<v>> : v \in VariantsOf({<<"A", "B", "A">>, <<"A", "A", "A">>}, 3)
                       \cup VariantsOf({<<"A", "B", "A", "B">>}, 4)}
        \cup {<<v, w>> : v \in VariantsOf({<<"A", "B">>}, 2),
                         w \in VariantsOf({<<"B", "C">>}, 2)}

\* handleSelectPath of the outliers page (page.tsx 897-924) for the list entry
\* `index`, with `outliers` in useAppStore.
OutlierSelectPath(outliers, index) ==
    /\ index \in 0..(Len(outliers) - 1)
    /\ Len(pending) < MaxInFlight
    /\ LET extPath == OutlierSortedPaths(outliers)[index + 1]
           activePathInfo ==
               [nodes |-> extPath.nodes,
                edges |-> extPath.edges,
                edgeDurations |-> Get(extPath._specificEdgeDurations),
                edgeTotalDurations |->
                    [e \in DOMAIN Get(extPath._specificTotalDurations) |->
                        Rat(Get(extPath._specificTotalDurations)[e], 1)],
                edgeCounts |-> Get(extPath._specificEdgeCounts),
                frequency |-> IF extPath._frequency # 0 THEN extPath._frequency ELSE 1]
       IN  /\ activePath' = Some(extPath)
           /\ selectedPathNodes' = Range(extPath.nodes)
           /\ selectedPathEdges' = Range(extPath.edges)
           /\ appSelectedPathIndex' = Some(index)
           /\ SetLayout(IF IsSome(graphData) /\ IsSome(startEndNodes)
                        THEN ComputeLayout(Layout, allNodes, allEdges,
                                 [colorPaletteKey |-> selectedColorPalette,
                                  filteredNodeIds |-> Range(extPath.nodes),
                                  filteredEdgeIds |-> Some(Range(extPath.edges)),
                                  activePathInfo |-> Some(activePathInfo),
                                  searchCasePathInfo |-> None])
                        ELSE Layout)
    /\ UNCHANGED <<pathVars, dataVars, selectedNodeIds, selectedColorPalette,
                   sidebarActiveTab, selectedPathIndex, mountedWith, activeTooltipEdgeId>>

(***************************************************************************)
(* SpecOutlier: a graph is on screen and the user selects outlier paths.   *)
(***************************************************************************)
NextOutlier ==
    \/ \E outliers \in OutlierInputs, index \in 0..1 : OutlierSelectPath(outliers, index)
    \/ \E i \in 1..MaxInFlight : LayoutResolve(i)

SpecOutlier == InitFail /\ [][NextOutlier]_vars

(***************************************************************************)
(* Pathfinding in Dashboard: the handlers of useGraphStore, called with    *)
(* the setters of useAppStore (Dashboard.tsx 249-286), and the layout      *)
(* effect that follows when the selected path nodes or edges changed.      *)
(***************************************************************************)
\* Dashboard.tsx 301-326 for the selection `pathNodes`, `pathEdges` (the two
\* Sets as their Array.from) the handler has just stored.
DashboardRelayout(pathNodes, pathEdges, pathIndex) ==
    LET config == DashboardConfig([sidebarActiveTab |-> sidebarActiveTab,
                                   selectedColorPalette |-> selectedColorPalette,
                                   selectedNodeIds |-> selectedNodeIds,
                                   selectedPathNodes |-> pathNodes,
                                   selectedPathEdges |-> pathEdges,
                                   selectedPathIndex |-> pathIndex])
    IN  IF /\ Len(allNodes) = 0
           /\ ~IsSome(config.activePathInfo)
           /\ ~IsSome(config.searchCasePathInfo)
        THEN UNCHANGED layoutVars
        ELSE SetLayout(ComputeLayout(Layout, allNodes, allEdges, config))

\* useGraphStore.ts 879-933: handleNodeClick in pathfinding mode.
StoreNodeClick(nodeId) ==
    /\ sidebarActiveTab = "Routing"
    /\ IsSome(graphData) /\ IsSome(variants)
    /\ nodeId \in IdsOf(allNodes) \cup IdsOf(layoutedNodes)
    /\ Len(pending) < MaxInFlight
    /\ activeTooltipEdgeId' = NULL
    /\ IF pathStartNodeId # NULL /\ pathEndNodeId = NULL /\ nodeId # pathStartNodeId
       THEN /\ pathEndNodeId' = nodeId
            /\ foundPaths' = StoreValidPaths(pathStartNodeId, nodeId, Get(variants))
            /\ selectedPathNodes' = {pathStartNodeId, nodeId}
            /\ DashboardRelayout(<<pathStartNodeId, nodeId>>, <<>>, appSelectedPathIndex)
            /\ UNCHANGED pathStartNodeId
       ELSE /\ pathStartNodeId' = nodeId
            /\ pathEndNodeId' = NULL
            /\ foundPaths' = <<>>
            /\ selectedPathNodes' = {nodeId}
            /\ DashboardRelayout(<<nodeId>>, <<>>, appSelectedPathIndex)
    /\ selectedPathEdges' = {}
    /\ UNCHANGED <<variants, processedPaths, sortedPaths, isSorted, activeTab, timers,
                   dataVars, selectedNodeIds, selectedColorPalette, appSelectedPathIndex,
                   sidebarActiveTab, activePath, selectedPathIndex, mountedWith>>

\* useGraphStore.ts 935-945, for the entry `index` of the listed foundPaths.
StoreHandleSelectPath(index) ==
    /\ sidebarActiveTab = "Routing"
    /\ index \in 0..(Len(foundPaths) - 1)
    /\ Len(pending) < MaxInFlight
    /\ LET path == foundPaths[index + 1]
       IN  /\ selectedPathNodes' = Range(path.nodes)
           /\ selectedPathEdges' = Range(path.edges)
           /\ appSelectedPathIndex' = Some(index)
           /\ activePath' = Some(foundPaths[index + 1])
           /\ DashboardRelayout(ArrayFromSet(path.nodes, <<>>),
                                ArrayFromSet(path.edges, <<>>), Some(index))
    /\ UNCHANGED <<pathVars, dataVars, selectedNodeIds, selectedColorPalette,
                   sidebarActiveTab, selectedPathIndex, mountedWith, activeTooltipEdgeId>>

\* useGraphStore.ts 1014-1025.  The Sets of selected path nodes and edges stay
\* as they are, so the layout effect does not run.
StoreRemovePath(indexToRemove) ==
    /\ sidebarActiveTab = "Routing"
    /\ indexToRemove \in 0..(Len(foundPaths) - 1)
    /\ foundPaths' = WithoutIndex(foundPaths, indexToRemove)
    /\ IF appSelectedPathIndex = Some(indexToRemove)
       THEN /\ appSelectedPathIndex' = None
            /\ activePath' = None
       ELSE /\ appSelectedPathIndex' =
                   IF IsSome(appSelectedPathIndex) /\ Get(appSelectedPathIndex) > indexToRemove
                   THEN Some(Get(appSelectedPathIndex) - 1)
                   ELSE appSelectedPathIndex
            /\ UNCHANGED activePath
    /\ UNCHANGED <<variants, pathStartNodeId, pathEndNodeId, processedPaths, sortedPaths,
                   isSorted, activeTab, timers, dataVars, layoutVars, selectedNodeIds,
                   selectedColorPalette, selectedPathNodes, selectedPathEdges,
                   sidebarActiveTab, selectedPathIndex, mountedWith, activeTooltipEdgeId>>

\* useGraphStore.ts 1027-1039.
StoreResetPathfinding ==
    /\ sidebarActiveTab = "Routing"
    /\ Len(pending) < MaxInFlight
    /\ pathStartNodeId' = NULL
    /\ pathEndNodeId' = NULL
    /\ foundPaths' = <<>>
    /\ activePath' = None
    /\ selectedPathNodes' = {}
    /\ selectedPathEdges' = {}
    /\ appSelectedPathIndex' = None
    /\ DashboardRelayout(<<>>, <<>>, None)
    /\ UNCHANGED <<variants, processedPaths, sortedPaths, isSorted, activeTab, timers,
                   dataVars, selectedNodeIds, selectedColorPalette, sidebarActiveTab,
                   selectedPathIndex, mountedWith, activeTooltipEdgeId>>

(***************************************************************************)
(* SpecFind: Dashboard on the Routing tab with a graph on screen whose     *)
(* variants take a transition the graph lacks and one transition twice;    *)
(* the user picks start and end nodes, selects and removes paths, resets,  *)
(* and selects an outlier path.                                            *)
(***************************************************************************)
FindDataset ==
    [graphData |-> <<GraphRecord("A", "B", Stats(1, 1, 10)),
                     GraphRecord("B", "C", Stats(2, 1, 10))>>,
     variants |-> <<Variant(<<"A", "B", "C">>, 3, <<0, 10, 30>>),
                    Variant(<<"A", "B", "A", "B">>, 1, <<0, 10, 20, 50>>)>>,
     outliers |-> <<Variant(<<"A", "A", "A">>, 1, <<0, 0, 10>>)>>,
     startActivities |-> <<"A">>,
     endActivities |-> <<"C">>]

InitFind ==
    /\ graphData = Some(FindDataset.graphData)
    /\ variants = Some(FindDataset.variants)
    /\ startEndNodes = Some([start |-> FindDataset.startActivities,
                             end |-> FindDataset.endActivities])
    /\ selectedNodeIds = {}
    /\ selectedColorPalette = "default"
    /\ selectedPathNodes = {}
    /\ selectedPathEdges = {}
    /\ appSelectedPathIndex = None
    /\ \E ingested \in {ProcessInitialData(Get(graphData), Get(startEndNodes).start,
                                           Get(startEndNodes).end)} :
          /\ allNodes = ingested.allNodes
          /\ allEdges = ingested.allEdges
    /\ layoutedNodes = FirstLayout.layoutedNodes
    /\ layoutedEdges = FirstLayout.layoutedEdges
    /\ isLayoutLoading = FALSE
    /\ activePath = None
    /\ activeTooltipEdgeId = NULL
    /\ pending = <<>>
    /\ PageInitial
    /\ sidebarActiveTab = "Routing"
    /\ pathStartNodeId = NULL
    /\ pathEndNodeId = NULL
    /\ foundPaths = <<>>
    /\ mountedWith = None
    /\ timers = <<>>

NextFind ==
    \/ \E nodeId \in Activities : StoreNodeClick(nodeId)
    \/ \E index \in 0..1 : StoreHandleSelectPath(index)
    \/ \E index \in 0..1 : StoreRemovePath(index)
    \/ StoreResetPathfinding
    \/ OutlierSelectPath(FindDataset.outliers, 0)
    \/ \E i \in 1..MaxInFlight : LayoutResolve(i)

SpecFind == InitFind /\ [][NextFind]_vars

(***************************************************************************)
(* SpecClick: the pathfinding page with a graph on screen and nothing      *)
(* selected.  The user clicks nodes, which selects, deselects and restarts *)
(* (page.tsx 318-333), and the search timers fire.                         *)
(* A callback handed to setTimeout is run by the event loop, whatever the  *)
(* user does meanwhile: FairClick asks that the timer at the head of the   *)
(* queue is taken off it, which is what SearchTimerFires, and no other     *)
(* step, does.                                                             *)
(***************************************************************************)
InitClick ==
    /\ graphData = Some(Dataset1.graphData)
    /\ variants = Some(Dataset1.variants)
    /\ startEndNodes = Some([start |-> Dataset1.startActivities,
                             end |-> Dataset1.endActivities])
    /\ selectedNodeIds = {}
    /\ selectedColorPalette = "default"
    /\ selectedPathNodes = {}
    /\ selectedPathEdges = {}
    /\ appSelectedPathIndex = None
    /\ \E ingested \in {ProcessInitialData(Get(graphData), Get(startEndNodes).start,
                                           Get(startEndNodes).end)} :
          /\ allNodes = ingested.allNodes
          /\ allEdges = ingested.allEdges
    /\ layoutedNodes = FirstLayout.layoutedNodes
    /\ layoutedEdges = FirstLayout.layoutedEdges
    /\ isLayoutLoading = FALSE
    /\ activePath = None
    /\ activeTooltipEdgeId = NULL
    /\ pending = <<>>
    /\ PageInitial
    /\ sidebarActiveTab = "Routing"
    /\ mountedWith = Some([selectedColorPalette |-> "default", selectedNodeIds |-> {}])
    /\ pathStartNodeId = NULL
    /\ pathEndNodeId = NULL
    /\ foundPaths = <<>>
    /\ timers = <<>>

NextClick ==
    \/ \E nodeId \in PickableIds(Activities) : PageNodeClick(nodeId)
    \/ SearchTimerFires

TimerDequeued ==
    /\ timers # <<>>
    /\ timers' = Tail(timers)

FairClick == WF_timers(TimerDequeued)

SpecClick == InitClick /\ [][NextClick]_vars /\ FairClick

(***************************************************************************)
(* Sorting the path list of the pathfinding page (page.tsx 338-349).       *)
(***************************************************************************)
\* The timer handleSortPaths schedules; it closes over processedPaths.
SortTimer(paths) == [kind |-> "sort", processedPaths |-> paths, live |-> TRUE]

\* [...processedPaths].sort((a, b) => (a.averageDuration ?? 0) - (b.averageDuration ?? 0)):
\* a stable sort, ascending.
InsertByAverageAsc(sorted, path) ==
    LET later == {k \in DOMAIN sorted : RatLess(path.averageDuration, sorted[k].averageDuration)}
        at == IF later = {} THEN Len(sorted) + 1 ELSE SetMin(later)
    IN  [k \in 1..(Len(sorted) + 1) |->
            IF k < at THEN sorted[k] ELSE IF k = at THEN path ELSE sorted[k - 1]]

RECURSIVE SortByAverageAsc(_, _, _)
SortByAverageAsc(paths, i, acc) ==
    IF i > Len(paths) THEN acc
    ELSE SortByAverageAsc(paths, i + 1, InsertByAverageAsc(acc, paths[i]))

\* handleSortPaths: the button is drawn while the store lists paths (693-709).
HandleSortPaths ==
    /\ sidebarActiveTab = "Routing"
    /\ Len(foundPaths) > 0
    /\ ~isSorted
    /\ Len(timers) < MaxTimers
    /\ timers' = Append(timers, SortTimer(processedPaths))
    /\ UNCHANGED <<variants, pathStartNodeId, pathEndNodeId, foundPaths, processedPaths,
                   sortedPaths, isSorted, activeTab, selectedPathIndex>>
    /\ UNCHANGED <<dataVars, layoutVars, selectedNodeIds, selectedColorPalette,
                   selectedPathNodes, selectedPathEdges, appSelectedPathIndex,
                   sidebarActiveTab, activePath, mountedWith, activeTooltipEdgeId>>

\* The setTimeout callback of handleSortPaths (page.tsx 341-348).
SortTimerFires ==
    /\ timers # <<>>
    /\ Head(timers).kind = "sort"
    /\ IF Head(timers).live
       THEN /\ sortedPaths' = SortByAverageAsc(Head(timers).processedPaths, 1, <<>>)
            /\ isSorted' = TRUE
       ELSE UNCHANGED <<sortedPaths, isSorted>>
    /\ timers' = Tail(timers)
    /\ UNCHANGED <<variants, pathStartNodeId, pathEndNodeId, foundPaths, processedPaths,
                   activeTab, selectedPathIndex>>
    /\ UNCHANGED <<dataVars, layoutVars, selectedNodeIds, selectedColorPalette,
                   selectedPathNodes, selectedPathEdges, appSelectedPathIndex,
                   sidebarActiveTab, activePath, mountedWith, activeTooltipEdgeId>>

(***************************************************************************)
(* SpecSort: the pathfinding page as in SpecSelect; the user also sorts    *)
(* the list and removes paths from it.                                     *)
(***************************************************************************)
NextSort ==
    \/ SearchTimerFires
    \/ \E index \in 0..1 : HandleSelectPath(index)
    \/ \E index \in 0..1 : RemovePath(index)
    \/ HandleSortPaths
    \/ SortTimerFires
    \/ \E i \in 1..MaxPending : LayoutResolve(i)

SpecSort == InitSelect /\ [][NextSort]_vars

(***************************************************************************)
(* Properties of PathExtractor and PathAggregator (checked under SpecPath).*)
(* The operators of this section restate the expected results from the     *)
(* inputs alone: they use no definition of the model above except the      *)
(* data helpers (EdgeId, Rat, Get).                                        *)
(***************************************************************************)
RECURSIVE SeqSum(_)
SeqSum(s) == IF s = <<>> THEN 0 ELSE Head(s) + SeqSum(Tail(s))

RatAdd(a, b) == Rat(a[1] * b[2] + b[1] * a[2], a[2] * b[2])

RECURSIVE RatSeqSum(_)
RatSeqSum(s) == IF s = <<>> THEN Rat(0, 1) ELSE RatAdd(Head(s), RatSeqSum(Tail(s)))

\* Index of the first / last occurrence of x in s (0-based), -1 when x does not occur.
FirstOccurrence(s, x) ==
    IF \E i \in 1..Len(s) : s[i] = x
    THEN (CHOOSE i \in 1..Len(s) : s[i] = x /\ \A j \in 1..(i - 1) : s[j] # x) - 1
    ELSE -1

LastOccurrence(s, x) ==
    IF \E i \in 1..Len(s) : s[i] = x
    THEN (CHOOSE i \in 1..Len(s) : s[i] = x /\ \A j \in (i + 1)..Len(s) : s[j] # x) - 1
    ELSE -1

ExpectedStartIdx(startId, path) ==
    IF startId = START_NODE THEN 0 ELSE FirstOccurrence(path, startId)

ExpectedEndIdx(endId, path) ==
    IF endId = END_NODE THEN Len(path) - 1 ELSE LastOccurrence(path, endId)

\* Both indices exist and endIdx > startIdx.
Qualifies(startId, endId, variant) ==
    LET a == ExpectedStartIdx(startId, variant.Variant_Path)
        b == ExpectedEndIdx(endId, variant.Variant_Path)
    IN  a # -1 /\ b # -1 /\ b > a

\* Under SpecPath the selection and the variants never change, so once the timer
\* has fired foundPaths is the result of the search for the state's own
\* arguments; `paths` is the array the extraction loop built for them.
Searched == timers = <<>>
LS ==
    [startId |-> pathStartNodeId,
     endId |-> pathEndNodeId,
     variantList |-> Get(variants),
     paths |-> ExtractPaths(pathStartNodeId, pathEndNodeId, Get(variants)),
     validPaths |-> StoreValidPaths(pathStartNodeId, pathEndNodeId, Get(variants)),
     result |-> foundPaths]
QualifyingVariants(ls) ==
    SelectSeq(ls.variantList, LAMBDA v : Qualifies(ls.startId, ls.endId, v))

\* Edge ids of the consecutive pairs of a node sequence.
PairEdge(nodes, i) == EdgeId(nodes[i], nodes[i + 1])
PairEdges(nodes) == {PairEdge(nodes, i) : i \in 1..(Len(nodes) - 1)}

\* The extracted paths merged into result path r: those with r's node sequence.
InGroup(ls, r, i) == ls.paths[i].nodes = r.nodes
GroupFrequency(ls, r) ==
    SeqSum([i \in 1..Len(ls.paths) |->
               IF InGroup(ls, r, i) THEN ls.paths[i].frequency ELSE 0])

\* C1: the frequencies of the returned paths add up to the frequencies of exactly
\* the variants that qualify (both endpoints present, endIdx > startIdx).
C1_FrequencyConservation ==
    Searched => \A ls \in {LS} :
        SeqSum([k \in 1..Len(ls.result) |-> ls.result[k].frequency])
            = SeqSum([k \in 1..Len(QualifyingVariants(ls)) |-> QualifyingVariants(ls)[k].Frequency])

\* Two qualifying variants of different frequency were merged into one path.
C1_Witness ==
    \E ls \in {LS} :
    /\ Searched
    /\ Len(ls.variantList) = 2
    /\ Len(ls.paths) = 2
    /\ Len(ls.result) = 1
    /\ ls.paths[1].frequency # ls.paths[2].frequency

\* C2: a merged path's average duration of each edge is the frequency-weighted mean
\* sum(duration_i * frequency_i) / sum(frequency_i) over the paths of its group.
C2_WeightedAverage ==
    Searched => \A ls \in {LS} :
        \A k \in 1..Len(ls.result) :
            LET r == ls.result[k]
                avg == Get(r._specificEdgeDurations)
            IN  /\ DOMAIN avg = PairEdges(r.nodes)
                /\ \A e \in DOMAIN avg :
                      RatEq(avg[e],
                            Rat(SeqSum([i \in 1..Len(ls.paths) |->
                                           IF InGroup(ls, r, i)
                                           THEN Get(ls.paths[i]._specificEdgeDurations)[e]
                                                    * ls.paths[i].frequency
                                           ELSE 0]),
                                GroupFrequency(ls, r)))

\* Frequencies 1 and 3 with edge durations 10 and 0 merged to 10/4, which is
\* neither the plain mean 5 nor the sum 10.
C2_Witness ==
    \E ls \in {LS} :
    /\ Searched
    /\ Len(ls.paths) = 2
    /\ Len(ls.result) = 1
    /\ ls.paths[1].frequency = 1
    /\ ls.paths[2].frequency = 3
    /\ \E e \in DOMAIN Get(ls.result[1]._specificEdgeDurations) :
          /\ Get(ls.paths[1]._specificEdgeDurations)[e] = 10
          /\ Get(ls.paths[2]._specificEdgeDurations)[e] = 0
          /\ RatEq(Get(ls.result[1]._specificEdgeDurations)[e], Rat(10, 4))

\* The last transition i (0-based) of the window a..b of a variant that has edge id e.
LastTransition(variant, a, b, e) ==
    CHOOSE i \in a..(b - 1) :
        /\ PairEdge(variant.Variant_Path, i + 1) = e
        /\ \A j \in (i + 1)..(b - 1) : PairEdge(variant.Variant_Path, j + 1) # e

ClampedDelta(timings, i) ==
    IF timings[i + 2] < timings[i + 1] THEN 0 ELSE timings[i + 2] - timings[i + 1]

\* C6: every per-edge duration of an extracted path is max(0, t[i+1] - t[i]) of the
\* transition it stands for, for Avg_Timings and Total_Timings alike, and no extracted
\* or merged edge duration is negative.
C6_DurationClamp ==
    Searched => \A ls \in {LS} :
        /\ \A k \in 1..Len(ls.paths) :
              LET p == ls.paths[k]
                  v == QualifyingVariants(ls)[k]
                  a == ExpectedStartIdx(ls.startId, v.Variant_Path)
                  b == ExpectedEndIdx(ls.endId, v.Variant_Path)
                  avg == Get(p._specificEdgeDurations)
                  tot == Get(p._specificTotalDurations)
                  window == {PairEdge(v.Variant_Path, i + 1) : i \in a..(b - 1)}
              IN  /\ DOMAIN avg = window
                  /\ DOMAIN tot = window
                  /\ \A e \in window :
                        LET i == LastTransition(v, a, b, e)
                        IN  /\ avg[e] = ClampedDelta(v.Avg_Timings, i)
                            /\ tot[e] = ClampedDelta(v.Total_Timings, i)
                            /\ avg[e] >= 0
                            /\ tot[e] >= 0
        /\ \A k \in 1..Len(ls.result) :
              /\ \A e \in DOMAIN Get(ls.result[k]._specificEdgeDurations) :
                    RatNonNeg(Get(ls.result[k]._specificEdgeDurations)[e])
              /\ \A e \in DOMAIN Get(ls.result[k]._specificTotalDurations) :
                    Get(ls.result[k]._specificTotalDurations)[e] >= 0

\* A path was extracted over a transition whose cumulative timestamp decreases.
C6_Witness ==
    \E ls \in {LS} :
    /\ Searched
    /\ \E k \in 1..Len(ls.paths) :
          LET p == ls.paths[k]
              t == Get(p._variantTimings)
          IN  \E i \in 1..(Len(t) - 1) :
                  /\ t[i + 1] < t[i]
                  /\ Get(p._specificEdgeDurations)[PairEdge(p.nodes, i)] = 0

\* C7: startIdx is the first occurrence of the start id (0 for START_NODE), endIdx the
\* last occurrence of the end id (length-1 for END_NODE), each found on its own, and the
\* path is the slice between them; for the extractor of the pathfinding page and for
\* the store's copy of it alike.
C7_FirstStartLastEnd ==
    Searched => \A ls \in {LS} :
        \A k \in (1..Len(ls.paths)) \cup {-j : j \in 1..Len(ls.validPaths)} :
            LET p == IF k > 0 THEN ls.paths[k] ELSE ls.validPaths[-k]
                full == p._fullPathNodes
            IN  /\ p._startIndex = ExpectedStartIdx(ls.startId, full)
                /\ p._endIndex = ExpectedEndIdx(ls.endId, full)
                /\ p.nodes = [j \in 1..(p._endIndex - p._startIndex + 1) |->
                                 full[p._startIndex + j]]

\* The trace [A,B,A,C] searched from A to C: startIdx 0, endIdx 3, the whole trace.
C7_Witness ==
    \E ls \in {LS} :
    /\ Searched
    /\ ls.startId = "A"
    /\ ls.endId = "C"
    /\ Len(ls.paths) = 1
    /\ ls.paths[1]._fullPathNodes = <<"A", "B", "A", "C">>
    /\ ls.paths[1]._startIndex = 0
    /\ ls.paths[1]._endIndex = 3
    /\ ls.paths[1].nodes = <<"A", "B", "A", "C">>

\* C8: a variant yields a path if and only if both indices exist and endIdx > startIdx:
\* the extracted paths are, in order, one per qualifying variant and no other; for the
\* extractor of the pathfinding page and for the store's copy of it alike.
C8_ExtractsIffQualifies ==
    Searched => \A ls \in {LS} :
        /\ Len(ls.paths) = Len(QualifyingVariants(ls))
        /\ \A k \in 1..Len(ls.paths) :
              /\ ls.paths[k]._fullPathNodes = QualifyingVariants(ls)[k].Variant_Path
              /\ ls.paths[k].frequency = QualifyingVariants(ls)[k].Frequency
        /\ Len(ls.validPaths) = Len(QualifyingVariants(ls))
        /\ \A k \in 1..Len(ls.validPaths) :
              /\ ls.validPaths[k]._fullPathNodes = QualifyingVariants(ls)[k].Variant_Path
              /\ ls.validPaths[k]._frequency = QualifyingVariants(ls)[k].Frequency

\* A variant holding both endpoints, the last end before the first start, was dropped
\* while another variant of the same input was extracted.
C8_Witness ==
    \E ls \in {LS} :
    /\ Searched
    /\ Len(ls.paths) = 1
    /\ \E i \in 1..Len(ls.variantList) :
          LET path == ls.variantList[i].Variant_Path
          IN  /\ FirstOccurrence(path, ls.startId) > 0
              /\ LastOccurrence(path, ls.endId) >= 0
              /\ LastOccurrence(path, ls.endId) < FirstOccurrence(path, ls.startId)

\* C9: a merged path's total duration of each edge is the plain sum of that edge's
\* total durations over the paths of its group.
C9_TotalsSummed ==
    Searched => \A ls \in {LS} :
        \A k \in 1..Len(ls.result) :
            LET r == ls.result[k]
                tot == Get(r._specificTotalDurations)
            IN  /\ DOMAIN tot = PairEdges(r.nodes)
                /\ \A e \in DOMAIN tot :
                      tot[e] = SeqSum([i \in 1..Len(ls.paths) |->
                                          IF InGroup(ls, r, i)
                                          THEN Get(ls.paths[i]._specificTotalDurations)[e]
                                          ELSE 0])

\* Edge totals 10 and 30 of two merged paths give 40.
C9_Witness ==
    \E ls \in {LS} :
    /\ Searched
    /\ Len(ls.paths) = 2
    /\ Len(ls.result) = 1
    /\ \E e \in DOMAIN Get(ls.result[1]._specificTotalDurations) :
          /\ Get(ls.paths[1]._specificTotalDurations)[e] = 10
          /\ Get(ls.paths[2]._specificTotalDurations)[e] = 30
          /\ Get(ls.result[1]._specificTotalDurations)[e] = 40

\* C10: a merged path's total duration is the sum, over its consecutive node pairs, of
\* the merged average duration recorded for the pair's edge id, and its average duration
\* is that total divided by the number of edges.
C10_PathTotalFromEdges ==
    Searched => \A ls \in {LS} :
        \A k \in 1..Len(ls.result) :
            LET r == ls.result[k]
                avg == Get(r._specificEdgeDurations)
                n == Len(r.nodes)
                total == RatSeqSum([i \in 1..(n - 1) |-> avg[PairEdge(r.nodes, i)]])
            IN  /\ RatEq(r.totalDuration, total)
                /\ RatEq(r.averageDuration, Rat(total[1], total[2] * (n - 1)))

(***************************************************************************)
(* Properties of GraphIngestor (checked under SpecIngest).                 *)
(***************************************************************************)
Ingested == allNodes # <<>>

RecordId(item) == EdgeId(item.Source_Activity, item.Target_Activity)

\* The records of graphData that have the edge id `id`, in input order.
RecordsWithId(id) == SelectSeq(Get(graphData), LAMBDA item : RecordId(item) = id)

EdgesWithId(id) == SelectSeq(allEdges, LAMBDA e : e.id = id)

\* The edge carries the statistics (weight, case count, mean duration, label) of item.
HasStatsOf(edge, item) ==
    /\ edge.label = item.Edge_Label
    /\ edge.data.Weight_Value = item.Weight_Value
    /\ edge.data.Case_Count = item.Case_Count
    /\ edge.data.Mean_Duration_Seconds = item.Mean_Duration_Seconds

SameStats(a, b) ==
    /\ a.Edge_Label = b.Edge_Label
    /\ a.Weight_Value = b.Weight_Value
    /\ a.Case_Count = b.Case_Count
    /\ a.Mean_Duration_Seconds = b.Mean_Duration_Seconds

C5_NoSilentCollapse ==
    Ingested =>
        \A i \in DOMAIN Get(graphData) :
            \E k \in DOMAIN allEdges :
                /\ allEdges[k].id = RecordId(Get(graphData)[i])
                /\ HasStatsOf(allEdges[k], Get(graphData)[i])

(***************************************************************************)
(* Properties of the application (checked under Spec).                     *)
(***************************************************************************)
\* C3: whenever an active path is set and no layout request is pending, the
\* rendered node list contains every node id of the active path.
C3_ActivePathRendered ==
    (IsSome(activePath) /\ pending = <<>>)
        => Range(Get(activePath).nodes) \subseteq IdsOf(layoutedNodes)

\* The selected path A, B, C was removed from the list while the node filter holds
\* A alone: the path is still the active one, no layout request is pending, and
\* the graph on screen is the filtered one, without B and C.
C3_Witness ==
    /\ IsSome(activePath)
    /\ Get(activePath).nodes = <<"A", "B", "C">>
    /\ selectedPathIndex = None
    /\ selectedNodeIds = {"A"}
    /\ pending = <<>>
    /\ ~isLayoutLoading
    /\ IdsOf(layoutedNodes) = {"A", START_NODE, END_NODE}

(***************************************************************************)
(* Properties of computeLayout (checked under SpecLayout, where the graph  *)
(* does not change while a request is in flight).                          *)
(***************************************************************************)
\* The path a request overlays: activePathInfo, or else searchCasePathInfo.
OverlayOf(config) ==
    IF IsSome(config.activePathInfo) THEN config.activePathInfo
    ELSE config.searchCasePathInfo

\* The filtered graph of a request in flight, from the graph and its config.
FilteredOf(request) == FilterGraph(allNodes, allEdges, request.config)

\* Every element of `part` is, unaltered and at its place, an element of `whole`.
KeepsAll(part, whole) ==
    /\ Len(part) <= Len(whole)
    /\ \A k \in DOMAIN part : whole[k] = part[k]

ConsecutivePairs(nodes) == {EdgeId(nodes[k], nodes[k + 1]) : k \in 1..(Len(nodes) - 1)}

\* C11 (amended): for any filtered graph G and overlaid path P, the lists handed
\* to the layout contain every node and edge of G unaltered and, in addition, a
\* node for every id of P's node sequence and an edge for every id of P's edge
\* list.
C11_GhostAdditivity ==
    \A i \in DOMAIN pending :
        IsSome(OverlayOf(pending[i].config)) =>
            \A G \in {FilteredOf(pending[i])} : \A P \in {Get(OverlayOf(pending[i].config))} :
                /\ KeepsAll(G.nodes, pending[i].nodesToLayout)
                /\ KeepsAll(G.edges, pending[i].edgesToLayout)
                /\ Range(P.nodes) \subseteq IdsOf(pending[i].nodesToLayout)
                /\ Range(P.edges) \subseteq IdsOf(pending[i].edgesToLayout)

\* A request in flight whose filtered graph is not empty and whose path added a
\* ghost node and a ghost edge to it.
C11_Witness ==
    \E i \in DOMAIN pending :
        /\ IsSome(pending[i].config.activePathInfo)
        /\ \E G \in {FilteredOf(pending[i])} :
              /\ Len(G.nodes) > 0
              /\ Len(G.edges) > 0
              /\ \E k \in DOMAIN pending[i].nodesToLayout :
                    /\ k > Len(G.nodes)
                    /\ IsGhost(pending[i].nodesToLayout[k])
              /\ \E k \in DOMAIN pending[i].edgesToLayout :
                    /\ k > Len(G.edges)
                    /\ IsGhost(pending[i].edgesToLayout[k])

\* C11 (as stated): ... and an edge for every consecutive pair of P's node
\* sequence.
C11_ConsecutivePairs ==
    \A i \in DOMAIN pending :
        IsSome(OverlayOf(pending[i].config)) =>
            \A G \in {FilteredOf(pending[i])} : \A P \in {Get(OverlayOf(pending[i].config))} :
                /\ KeepsAll(G.nodes, pending[i].nodesToLayout)
                /\ KeepsAll(G.edges, pending[i].edgesToLayout)
                /\ Range(P.nodes) \subseteq IdsOf(pending[i].nodesToLayout)
                /\ ConsecutivePairs(P.nodes) \subseteq IdsOf(pending[i].edgesToLayout)


NoDuplicateIds(elems) ==
    \A j, k \in DOMAIN elems : elems[j].id = elems[k].id => j = k

\* C12: after filtering and overlay injection, no two nodes share an id and no
\* two edges share an id in the lists handed to the layout, also when the
\* overlay's node sequence visits an activity more than once.
C12_NoDuplicateIds ==
    \A i \in DOMAIN pending :
        /\ NoDuplicateIds(pending[i].nodesToLayout)
        /\ NoDuplicateIds(pending[i].edgesToLayout)

\* The path A, B, A is selected on the pathfinding page while the ingested
\* graph has no node A: the request holds two ghost nodes with the id A.
C12_Witness ==
    \E i \in DOMAIN pending :
        /\ IsSome(pending[i].config.activePathInfo)
        /\ Get(pending[i].config.activePathInfo).nodes = <<"A", "B", "A">>
        /\ Len(allNodes) > 0
        /\ \E j, k \in DOMAIN pending[i].nodesToLayout :
              /\ j < k
              /\ pending[i].nodesToLayout[j].id = "A"
              /\ pending[i].nodesToLayout[k].id = "A"


\* C13: for every graph, a call whose filteredNodeIds is empty filters nothing:
\* the node list and the edge list handed to the layout are the full allNodes
\* and allEdges, unchanged.
C13_EmptyMeansAll ==
    \A i \in DOMAIN pending :
        pending[i].config.filteredNodeIds = {} =>
            /\ FilteredOf(pending[i]) = [nodes |-> allNodes, edges |-> allEdges]
            /\ ~IsSome(OverlayOf(pending[i].config)) =>
                  /\ pending[i].nodesToLayout = allNodes
                  /\ pending[i].edgesToLayout = allEdges

\* A request in flight for an ingested graph and an empty filteredNodeIds.
C13_Witness ==
    \E i \in DOMAIN pending :
        /\ pending[i].config.filteredNodeIds = {}
        /\ Len(allNodes) > 2
        /\ Len(allEdges) > 0
        /\ pending[i].nodesToLayout = allNodes


\* A path is being isolated: the call overlays a path, as ghosts or as the
\* search-case overlay.
IsPathRestricted(config) == IsSome(OverlayOf(config))

\* C14: when filteredNodeIds is not empty, START_NODE and END_NODE are kept by
\* the node filter if and only if no path (from pathfinding, outliers or case
\* search) is being isolated.
C14_AnchorsIffNoPath ==
    \A i \in DOMAIN pending :
        (pending[i].config.filteredNodeIds # {} /\ Len(allNodes) > 0) =>
            \A G \in {FilteredOf(pending[i])} :
                /\ START_NODE \in IdsOf(G.nodes) <=> ~IsPathRestricted(pending[i].config)
                /\ END_NODE \in IdsOf(G.nodes) <=> ~IsPathRestricted(pending[i].config)

\* Dashboard's effect ran on the case-search tab with a selected path: the path
\* is overlaid by searchCasePathInfo and both anchors are handed to the layout.
C14_Witness ==
    \E i \in DOMAIN pending :
        /\ IsSome(pending[i].config.searchCasePathInfo)
        /\ pending[i].config.filteredNodeIds # {}
        /\ {START_NODE, END_NODE} \subseteq IdsOf(pending[i].nodesToLayout)


\* C15: whenever a filteredEdgeIds set is supplied (non-null), whatever the set,
\* the filtered edge list contains only edges whose id is in the set and whose
\* endpoints both survive the node filter.
C15_EdgeFilterApplied ==
    \A i \in DOMAIN pending :
        IsSome(pending[i].config.filteredEdgeIds) =>
            \A G \in {FilteredOf(pending[i])} : \A k \in DOMAIN G.edges :
                /\ G.edges[k].id \in Get(pending[i].config.filteredEdgeIds)
                /\ G.edges[k].source \in IdsOf(G.nodes)
                /\ G.edges[k].target \in IdsOf(G.nodes)

\* A call that supplied the empty set of edge ids and whose filtered edge list
\* is not empty.
C15_Witness ==
    \E i \in DOMAIN pending :
        /\ pending[i].config.filteredEdgeIds = Some({})
        /\ IsSome(pending[i].config.activePathInfo)
        /\ Len(FilteredOf(pending[i]).edges) > 0


(***************************************************************************)
(* Properties of overlapping layout requests (checked under SpecRace).     *)
(***************************************************************************)
\* C16: a superseded request in flight is not cancelled, and the request that
\* is fulfilled last wins.  A new call keeps every earlier request in flight;
\* a step that takes a request out of flight takes out exactly one, whichever
\* its place in the order of issue, and the rendered lists after the step are
\* the ones computed from that request.
C16_LastResolvedWins ==
    [][/\ Len(pending') > Len(pending) =>
              /\ Len(pending') = Len(pending) + 1
              /\ SubSeq(pending', 1, Len(pending)) = pending
       /\ Len(pending') < Len(pending) =>
              \E i \in DOMAIN pending :
                  /\ pending' = RemoveAt(pending, i)
                  /\ layoutedNodes' = LayoutResult(pending[i]).layoutedNodes
                  /\ layoutedEdges' = LayoutResult(pending[i]).layoutedEdges]_vars

\* Two calls overlapped and the later one was fulfilled first: its result is
\* on screen, the loading flag is down, and the earlier call, for another
\* config, is still in flight.
C16_Witness ==
    /\ Len(pending) = 1
    /\ ~isLayoutLoading
    /\ Len(layoutedNodes) > 0
    /\ layoutedNodes # LayoutResult(pending[1]).layoutedNodes
    /\ \E config \in RaceConfigs :
          /\ config # pending[1].config
          /\ layoutedNodes =
                 LayoutResult(LayoutRequest(allNodes, allEdges, config)).layoutedNodes


\* The graphs the store can hold for the raw data at hand: none yet, or the one
\* processInitialData computes.
IngestSnapshots ==
    {[allNodes |-> <<>>, allEdges |-> <<>>],
     ProcessInitialData(Get(graphData), Get(startEndNodes).start, Get(startEndNodes).end)}

\* The rendered lists one computation produces: those of the empty graph, or of
\* one fulfilled call for one graph and one config.
LayoutSnapshots ==
    {[layoutedNodes |-> <<>>, layoutedEdges |-> <<>>]}
        \cup {LayoutResult(LayoutRequest(g.allNodes, g.allEdges, config)) :
                 g \in IngestSnapshots, config \in RaceConfigs}

\* C17: every observable state holds a fully formed snapshot: the rendered node
\* list and the rendered edge list are those of one and the same layout
\* computation, and the ingested node and edge collections those of one and the
\* same ingestion.
C17_Snapshot ==
    /\ [allNodes |-> allNodes, allEdges |-> allEdges] \in IngestSnapshots
    /\ [layoutedNodes |-> layoutedNodes, layoutedEdges |-> layoutedEdges]
           \in LayoutSnapshots

\* A layout with nodes and edges is on screen, it was replaced at least once
\* (the graph on screen is not the one of the call still in flight), and the
\* ingested graph is in the store.
C17_Witness ==
    /\ Len(allNodes) > 0
    /\ Len(allEdges) > 0
    /\ Len(layoutedNodes) > 0
    /\ Len(layoutedEdges) > 0
    /\ Len(pending) = 1
    /\ layoutedNodes # LayoutResult(pending[1]).layoutedNodes


(***************************************************************************)
(* Properties of path selection (checked under SpecSelect).                *)
(***************************************************************************)
\* The lists on screen are the layout of the active path.
ActivePathOnScreen ==
    /\ IsSome(activePath)
    /\ [layoutedNodes |-> layoutedNodes, layoutedEdges |-> layoutedEdges] =
           LayoutResult(LayoutRequest(allNodes, allEdges,
                                      PathConfig(selectedColorPalette, Get(activePath))))

\* C18: re-selecting the already-active path is idempotent.  When the path of
\* the selected index is the active one, its layout is on screen and no call is
\* in flight, a step that selects that index again and calls computeLayout
\* leaves the active path and the selected sets unchanged, hands to the layout
\* the very node list that is on screen (no further ghost node), and the lists
\* its call renders when fulfilled are the ones on screen.
C18_ReselectIdempotent ==
    [][\A index \in 0..1 :
          (/\ selectedPathIndex = Some(index)
           /\ selectedPathIndex' = Some(index)
           /\ index < Len(DisplayedPaths)
           /\ activePath = Some(DisplayedPaths[index + 1])
           /\ ActivePathOnScreen
           /\ pending = <<>>
           /\ pending' # <<>>)
              => /\ activePath' = activePath
                 /\ selectedPathNodes' = selectedPathNodes
                 /\ selectedPathEdges' = selectedPathEdges
                 /\ Len(pending') = 1
                 /\ pending'[1].nodesToLayout = layoutedNodes
                 /\ LayoutResult(pending'[1]) =
                        [layoutedNodes |-> layoutedNodes,
                         layoutedEdges |-> layoutedEdges]]_vars

\* The active path A, B, C, whose layout with the ghost node B is on screen,
\* was selected again: its call is in flight and will render the same lists.
C18_Witness ==
    /\ ActivePathOnScreen
    /\ Get(activePath).nodes = <<"A", "B", "C">>
    /\ \E k \in DOMAIN layoutedNodes :
          layoutedNodes[k].id = "B" /\ IsGhost(layoutedNodes[k])
    /\ Len(pending) = 1
    /\ isLayoutLoading
    /\ LayoutResult(pending[1]) =
           [layoutedNodes |-> layoutedNodes, layoutedEdges |-> layoutedEdges]


(***************************************************************************)
(* Properties of a failing layout (checked under SpecFail).  The catch of  *)
(* computeLayout has no throw: a rejection has no outcome other than the   *)
(* one LayoutReject gives.                                                 *)
(***************************************************************************)
\* C19: when elk.layout rejects, the rendered nodes and edges are left as they
\* were: whatever calls were made and rejected, the last good layout is the
\* one on screen; and once no call is in flight the loading flag is down.
C19_RejectKeepsLayout ==
    /\ layoutedNodes = FirstLayout.layoutedNodes
    /\ layoutedEdges = FirstLayout.layoutedEdges
    /\ pending = <<>> => ~isLayoutLoading

\* Two calls overlapped and one of them was rejected: the loading flag is down
\* although the other call is in flight, and the first layout, with nodes and
\* edges, is on screen.
C19_Witness ==
    /\ Len(pending) = 1
    /\ ~isLayoutLoading
    /\ Len(layoutedNodes) > 0
    /\ Len(layoutedEdges) > 0
    /\ layoutedNodes # LayoutResult(pending[1]).layoutedNodes


\* C20: when elk.layout rejects, a layout-failed state is surfaced: the store
\* after the rejection differs, in some field computeLayout writes, from the
\* store in which no layout was requested since the first one (first layout on
\* screen, loading flag down).
C20_FailureSurfaced ==
    [][Len(pending') < Len(pending) =>
           <<layoutedNodes', layoutedEdges', isLayoutLoading'>>
               # <<FirstLayout.layoutedNodes, FirstLayout.layoutedEdges, FALSE>>]_vars



(***************************************************************************)
(* Properties of the colour scale, checked under SpecLayout.               *)
(***************************************************************************)
NonGhostWeights(edges) ==
    {WeightOf(edges[j]) : j \in {k \in DOMAIN edges : ~IsGhost(edges[k])}}

WithoutGhosts(edges) == SelectSeq(edges, LAMBDA e : ~IsGhost(e))

\* C21: the colour-scale domain of a layout request is fixed by the weights of
\* its non-ghost edges alone (the same request without its ghost edges has the
\* same domain); it is [0, 1] when there is no non-ghost edge, [min, min + 1]
\* when the least and the greatest weight are equal, [min, max] otherwise, and
\* so minWeight < maxWeight always.
C21_ScaleDomain ==
    \A i \in DOMAIN pending :
        \A edges \in {pending[i].edgesToLayout} :
            \A range \in {WeightRange(edges)} :
                \A W \in {NonGhostWeights(edges)} :
                    /\ range.minWeight < range.maxWeight
                    /\ range = WeightRange(WithoutGhosts(edges))
                    /\ W = {} => range = [minWeight |-> 0, maxWeight |-> 1]
                    /\ (W # {} /\ SetMin(W) = SetMax(W))
                           => range = [minWeight |-> SetMin(W), maxWeight |-> SetMin(W) + 1]
                    /\ (W # {} /\ SetMin(W) < SetMax(W))
                           => range = [minWeight |-> SetMin(W), maxWeight |-> SetMax(W)]

\* A request in flight whose only real edge weighs 1 and that carries a ghost
\* edge: the domain is [1, 2], not [0, 1].
C21_Witness ==
    \E i \in DOMAIN pending :
        \A edges \in {pending[i].edgesToLayout} :
            /\ \E j \in DOMAIN edges : IsGhost(edges[j])
            /\ NonGhostWeights(edges) = {1}
            /\ WeightRange(edges) = [minWeight |-> 1, maxWeight |-> 2]


(***************************************************************************)
(* Properties of the ghost edges' colour, checked under SpecStyle.         *)
(***************************************************************************)
Highlighted(edge) == IsSelected(edge) \/ edge.id = activeTooltipEdgeId

\* C22: in every state reached through layout, palette change, node or edge
\* selection and tooltip closing, a ghost edge that no current selection
\* highlights is drawn with the fixed ghost accent colour, by either Graph
\* component.
C22_GhostAccent ==
    \A graph \in GraphCopies :
        \A i \in DOMAIN layoutedEdges :
            (IsGhost(layoutedEdges[i]) /\ ~Highlighted(layoutedEdges[i]))
                => RenderedStroke(graph, layoutedEdges[i]) = GhostAccent

\* A ghost edge is on screen, unselected and without tooltip, after a selection
\* handler has rewritten the edge styles.
C22_Witness ==
    \E i \in DOMAIN layoutedEdges :
        /\ IsGhost(layoutedEdges[i])
        /\ "selected" \in DOMAIN layoutedEdges[i]
        /\ ~Highlighted(layoutedEdges[i])
        /\ layoutedEdges[i].style.stroke = "#3b82f6"


(***************************************************************************)
(* Properties of the outlier paths, checked under SpecOutlier.             *)
(***************************************************************************)
\* The path PathExtractor builds for the whole variant an outlier path was
\* made from.
ExtractedWhole(path) ==
    ExtractVariant(START_NODE, END_NODE,
                   Variant(path._fullPathNodes, path._frequency,
                           Get(path._variantTimings)))[1]

\* C23: the active path built from an outlier variant carries for each of its
\* edges the duration the PathExtractor rule gives for that transition: the
\* difference of the consecutive cumulative timestamps, clamped to >= 0.
C23_OutlierDurationsAsExtracted ==
    \A p \in {o \in {activePath} : IsSome(o) /\ "_specificEdgeCounts" \in DOMAIN Get(o)} :
        \A e \in Range(Get(p).edges) :
            RatEq(Get(Get(p)._specificEdgeDurations)[e],
                  Rat(Get(ExtractedWhole(Get(p))._specificEdgeDurations)[e], 1))

\* An outlier path with rising timestamps that takes the same transition
\* twice, in different times, is the active path.
C23_Witness ==
    /\ IsSome(activePath)
    /\ "_specificEdgeCounts" \in DOMAIN Get(activePath)
    /\ \A i \in 1..(Len(Get(Get(activePath)._variantTimings)) - 1) :
           Get(Get(activePath)._variantTimings)[i]
               <= Get(Get(activePath)._variantTimings)[i + 1]
    /\ \E e \in Range(Get(activePath).edges) :
           /\ Get(Get(activePath)._specificEdgeCounts)[e] = 2
           /\ ~RatEq(Get(Get(activePath)._specificEdgeDurations)[e],
                     Rat(Get(ExtractedWhole(Get(activePath))._specificEdgeDurations)[e], 1))


(***************************************************************************)
(* Properties of EdgeOverrideResolver, checked under SpecFind for every    *)
(* edge of the graph and of the screen and the active path of the state.   *)
(***************************************************************************)
\* (a): the active path has an average-duration entry for the edge id.
CaseA(edge) ==
    /\ IsSome(activePath)
    /\ "_specificEdgeDurations" \in DOMAIN Get(activePath)
    /\ IsSome(Get(activePath)._specificEdgeDurations)
    /\ edge.id \in DOMAIN Get(Get(activePath)._specificEdgeDurations)

\* (b): the edge occurs in activePath.edges and cumulative timings are present.
CaseB(edge) ==
    /\ IsSome(activePath)
    /\ edge.id \in Range(Get(activePath).edges)
    /\ "_variantTimings" \in DOMAIN Get(activePath)
    /\ IsSome(Get(activePath)._variantTimings)
    /\ Len(Get(Get(activePath)._variantTimings)) > 0

\* The clamped timing deltas of the occurrences of the edge in the active path,
\* summed.
RECURSIVE DeltaSum(_, _, _)
DeltaSum(path, edge, i) ==
    IF i > Len(path.edges) THEN 0
    ELSE (IF path.edges[i] = edge.id
          THEN LET t == Get(path._variantTimings)
                   d == t[path._startIndex + i + 1] - t[path._startIndex + i]
               IN  IF d > 0 THEN d ELSE 0
          ELSE 0) + DeltaSum(path, edge, i + 1)

\* What the priority asks of the override the resolver returns for `edge`.
OverrideAsPrioritised(edge) ==
    \A override \in {CalculateEdgeOverride(edge, activePath)} :
        /\ ~IsSome(override) <=> (~IsSome(activePath) \/ (~CaseA(edge) /\ ~CaseB(edge)))
        /\ CaseA(edge) =>
               /\ Get(override).displayLabel
                      = FormatDuration(Get(Get(activePath)._specificEdgeDurations)[edge.id])
               /\ Get(override).tooltipOverride.rawDuration
                      = Get(Get(activePath)._specificEdgeDurations)[edge.id]
        /\ (~CaseA(edge) /\ CaseB(edge)) =>
               Get(override).displayLabel
                   = FormatDuration(Rat(DeltaSum(Get(activePath), edge, 1), 1))

\* C24: the resolver returns null exactly when there is no active path or
\* neither (a) nor (b) applies; when (a) applies the label and the raw duration
\* are those of the per-edge entry, whether or not (b) applies too; otherwise,
\* when (b) applies, the label is the sum of the timing deltas.
C24_OverridePriority ==
    /\ \A i \in DOMAIN allEdges : OverrideAsPrioritised(allEdges[i])
    /\ \A i \in DOMAIN layoutedEdges : OverrideAsPrioritised(layoutedEdges[i])

\* The three cases occur: an edge on screen for which (a) and (b) apply and
\* give different durations, and, with another active path, one for which only
\* (b) applies, on a transition taken twice, while an edge of the graph has
\* neither.
C24_Witness ==
    \/ \E i \in DOMAIN layoutedEdges :
          /\ CaseA(layoutedEdges[i]) /\ CaseB(layoutedEdges[i])
          /\ FormatDuration(Rat(DeltaSum(Get(activePath), layoutedEdges[i], 1), 1))
                 # Get(CalculateEdgeOverride(layoutedEdges[i], activePath)).displayLabel
    \/ /\ \E i \in DOMAIN layoutedEdges :
             /\ ~CaseA(layoutedEdges[i]) /\ CaseB(layoutedEdges[i])
             /\ Cardinality(EdgeIndices(Get(activePath), layoutedEdges[i])) = 2
       /\ \E i \in DOMAIN allEdges : ~CaseA(allEdges[i]) /\ ~CaseB(allEdges[i])

(***************************************************************************)
(* Properties of the start and end selection, checked under SpecClick.     *)
(***************************************************************************)
\* What a click on `nodeId` selects while the selection is incomplete.
ClickSelects(nodeId) ==
    IF pathStartNodeId = NULL
    THEN pathStartNodeId' = nodeId /\ pathEndNodeId' = pathEndNodeId
    ELSE (pathEndNodeId = NULL /\ nodeId # pathStartNodeId)
             => (pathEndNodeId' = nodeId /\ pathStartNodeId' = pathStartNodeId)

\* The pair (startId, endId) is selected and at least one variant qualifies.
ValidSelection(startId, endId) ==
    /\ pathStartNodeId = startId
    /\ pathEndNodeId = endId
    /\ IsSome(variants)
    /\ Len(FindPathsBetweenNodes(startId, endId, Get(variants))) > 0

\* C25: the first click selects the start and a following click on another
\* node selects the end; and a valid (start, end) selection leads to a state
\* whose path list is non-empty and is the list of paths found for that pair.
C25_SelectionLeadsToPaths ==
    /\ [][\A nodeId \in PickableIds(Activities) :
             PageNodeClick(nodeId) => ClickSelects(nodeId)]_vars
    /\ \A startId, endId \in PickableIds(Activities) :
          ValidSelection(startId, endId)
              ~> (/\ Len(foundPaths) > 0
                  /\ foundPaths = FindPathsBetweenNodes(startId, endId, Get(variants)))

\* The pair (A, C) is selected, and the list holds its two paths.
C25_Witness ==
    /\ ValidSelection("A", "C")
    /\ timers = <<>>
    /\ Len(foundPaths) = 2
    /\ foundPaths = FindPathsBetweenNodes("A", "C", Get(variants))


(***************************************************************************)
(* Properties of the layout-loading flag, checked under SpecRace.          *)
(***************************************************************************)
\* C26: while at least one call of elk.layout is in flight, isLayoutLoading
\* is true; with overlapping calls it stays true until the last one settles.
C26_LoadingWhilePending == (Len(pending) > 0) => isLayoutLoading

\* Two calls overlap and the flag is up.
C26_Witness == Len(pending) = 2 /\ isLayoutLoading


(***************************************************************************)
(* Properties of the found-path list against the selection, checked under  *)
(* SpecClick.                                                              *)
(***************************************************************************)
\* C27: whenever the found-path list is non-empty, a start and an end node are
\* selected and every listed path is one extracted for that pair; a search
\* started for an earlier pair does not fill the list after the selection
\* was changed or reset.
C27_ListMatchesSelection ==
    (Len(foundPaths) > 0) =>
        /\ pathStartNodeId # NULL
        /\ pathEndNodeId # NULL
        /\ IsSome(variants)
        /\ \A i \in DOMAIN foundPaths :
              \E j \in DOMAIN FindPathsBetweenNodes(pathStartNodeId, pathEndNodeId,
                                                    Get(variants)) :
                 foundPaths[i] = FindPathsBetweenNodes(pathStartNodeId, pathEndNodeId,
                                                       Get(variants))[j]

\* The list was filled while its pair is still selected.
C27_Witness ==
    /\ Len(foundPaths) > 0
    /\ pathStartNodeId = "A"
    /\ pathEndNodeId = "B"
    /\ foundPaths = FindPathsBetweenNodes("A", "B", Get(variants))


(***************************************************************************)
(* Properties of the ghost elements on screen, checked under SpecFind.     *)
(***************************************************************************)
\* C28: ghost-marked nodes and edges are on screen only while an active path
\* is set, and each is a node or a consecutive-pair edge of it; stated for
\* the states with no layout request pending, it says that once the active
\* path was cleared and every request has resolved no ghost element remains.
C28_GhostsOfActivePathOnly ==
    (pending = <<>>) =>
        /\ \A i \in DOMAIN layoutedNodes :
              IsGhost(layoutedNodes[i]) =>
                  /\ IsSome(activePath)
                  /\ layoutedNodes[i].id \in Range(Get(activePath).nodes)
        /\ \A i \in DOMAIN layoutedEdges :
              IsGhost(layoutedEdges[i]) =>
                  /\ IsSome(activePath)
                  /\ layoutedEdges[i].id \in ConsecutivePairs(Get(activePath).nodes)

\* A ghost edge of the active path is on screen and nothing is pending.
C28_Witness ==
    /\ pending = <<>>
    /\ IsSome(activePath)
    /\ \E i \in DOMAIN layoutedEdges :
          /\ IsGhost(layoutedEdges[i])
          /\ layoutedEdges[i].id \in ConsecutivePairs(Get(activePath).nodes)

(***************************************************************************)
(* Properties of the selected index against the path list, checked under   *)
(* SpecSort.                                                               *)
(***************************************************************************)
\* C29: whenever a path index is selected, the path shown at that index in
\* the path list is the active path, also after another path was removed
\* and after the list was sorted again.
C29_SelectedIndexShowsActivePath ==
    IsSome(selectedPathIndex) =>
        /\ IsSome(activePath)
        /\ Get(selectedPathIndex) < Len(DisplayedPaths)
        /\ DisplayedPaths[Get(selectedPathIndex) + 1] = Get(activePath)

\* An earlier entry was removed: the second path of the found list is selected
\* and is shown at index 0.
C29_Witness ==
    /\ selectedPathIndex = Some(0)
    /\ Len(foundPaths) = 2
    /\ Len(DisplayedPaths) = 1
    /\ activePath = Some(foundPaths[2])
    /\ DisplayedPaths[1] = foundPaths[2]


(***************************************************************************)
(* Properties of the arrival of new raw data, checked under Spec.          *)
(***************************************************************************)
\* C30: when new raw data arrives, the active path, the found-path list and
\* the start and end selection derived from the previous data are cleared.
C30_NewDataClearsPaths ==
    [][\A d \in Datasets :
          LoadGraph(d) =>
              /\ activePath' = None
              /\ foundPaths' = <<>>
              /\ pathStartNodeId' = NULL
              /\ pathEndNodeId' = NULL]_vars

\* New raw data arrived on the pathfinding page while a path was selected:
\* the app store's selection is empty, the page's index, the active path, the
\* list and the start and end nodes are those of before.
C30_Witness ==
    /\ IsSome(activePath)
    /\ IsSome(selectedPathIndex)
    /\ appSelectedPathIndex = None
    /\ selectedPathNodes = {}
    /\ Len(foundPaths) > 0
    /\ pathStartNodeId # NULL
    /\ pathEndNodeId # NULL

====
